---------------------------- MODULE Spec2Model ----------------------------
(***************************************************************************)
(* A model of nimblecache: the keyspace store (storage/db.rs), the TTL     *)
(* index and its evictor (storage/ttl.rs), the per-connection command      *)
(* handler with its MULTI/EXEC pipeline (handler.rs, command/pipelining.rs)*)
(* and the replication of writes to replica peers (replication/peer.rs).   *)
(***************************************************************************)
EXTENDS Integers, Sequences, FiniteSets, TLC

(***************************************************************************)
(* Bounds of the model and the input alphabets.                            *)
(***************************************************************************)
\* longest list the model lets a key hold
MaxListLen == 2
\* the clock stops at this instant; deadlines are drawn from 0..MaxTime
MaxTime == 2
\* events that may wait in the store's event channel
MaxEvents == 1
\* commands one connection may queue between MULTI and EXEC
MaxQueue == 2
\* the values the replication channel carries in SpecRepl
MaxStream == 2
\* instants of the clock in one millisecond (the clock of the source counts
\* nanoseconds)
NanosPerMilli == 2

Names == {"k1", "k2"}
Vals == {"a", "b"}
\* rank of a name in the String ordering of the BTreeSet
NameRank == [n \in Names |-> IF n = "k1" THEN 1 ELSE 2]
\* the value vectors handed to lpush / rpush
PushArgs == {<<"a">>, <<"b">>, <<"a", "b">>, <<"b", "a">>}
\* the name slices handed to bulk_del
DelArgs == {<<"k1">>, <<"k2">>, <<"k1", "k2">>, <<"k1", "k1">>, <<"k2", "k1">>}
\* the indices handed to lrange
Indices == {-2, -1, 0, 1}
\* the deadlines handed to set in the store-level specification
StoreDeadlines == {1}

VARIABLES
    data,       \* DB.data: name -> Option<(Key, Entry)>
    events,     \* DB.events: the values waiting in the broadcast channel
    receivers,  \* number of live receivers of DB.events
    expiries,   \* KeyEvictor.expiries: set of <<deadline, name>>
    permit,     \* the stored permit of eviction_notifier (tokio Notify)
    sweeper,    \* position of the eviction loop of KeyEvictor::run and its live locals
    now,        \* the UTC clock
    last,       \* the most recent store call and its reply
    written,    \* per name: what the latest SET that stored a value stored (value,
                \* deadline, whether it replied Ok), while neither a later call nor
                \* an eviction has changed the name's entry
    conns,      \* per connection: the MultiCommand of FrameHandler::handle and the
                \* handler's position
    out,        \* the most recent reply written to a connection
    sockets,    \* per connection: the state of its socket and what was written to it
    replication, \* ReplicaPeers: the registry, the broadcast channel and its receivers
    wire,       \* a RESP value, its bytes and what the parser made of a buffer
    codec,      \* the framed codec of one socket: bytes to come, buffer, frames surfaced
    slave,      \* MasterServer::perform_handshake of a server started as a slave
    acceptor,   \* accept_conn and the handler pool: permits, sockets, their fates
    fanout,     \* a command, what replication_cmd made of it and what the replica parsed
    locks       \* the tasks that take the server's locks: where each stands, what it holds

vars == <<data, events, receivers, expiries, permit, sweeper, now, last, written,
          conns, out, sockets, replication, wire, codec, slave, acceptor, fanout, locks>>

(***************************************************************************)
(* Option, Result and the value types of storage/db.rs.                    *)
(***************************************************************************)
None == <<>>
Some(x) == <<x>>

\* Result<T, DBError>: Ok of a text, an Option or a sequence; Ok of a usize; Err
Ok(x) == [ok |-> TRUE, val |-> x, count |-> 0, err |-> ""]
OkCount(n) == [ok |-> TRUE, val |-> <<>>, count |-> n, err |-> ""]
Err(e) == [ok |-> FALSE, val |-> <<>>, count |-> 0, err |-> e]

WrongType == "WrongType"
ChannelClosed == "channel closed"

String(s) == [type |-> "String", s |-> s]
List(l) == [type |-> "List", l |-> l]
Key(value, expiry) == [value |-> value, expiry |-> expiry]
Entry(value) == [value |-> value]

SetKeyExpiry(d, k) == [type |-> "SetKeyExpiry", pairs |-> <<(<<d, k>>)>>]
BulkDelKeys(pairs) == [type |-> "BulkDelKeys", pairs |-> pairs]

\* OffsetDateTime as the signed count of clock instants since UNIX_EPOCH, and
\* Duration as a signed count of instants.
\* Duration::whole_milliseconds: the fraction of a millisecond is cut off
whole_milliseconds(d) ==
    IF d >= 0 THEN d \div NanosPerMilli ELSE -((-d) \div NanosPerMilli)

\* Duration::milliseconds
milliseconds(ms) == ms * NanosPerMilli

\* `x as u64` and `x as i64`: the wrap of a negative count and back; the
\* model places the top of the u64 range at 2^30
as_u64(x) == IF x >= 0 THEN x ELSE x + 2^30
as_i64(x) == IF x >= 2^29 THEN x - 2^30 ELSE x

RECURSIVE Reverse(_)
Reverse(s) == IF s = <<>> THEN <<>> ELSE Append(Reverse(Tail(s)), Head(s))

Range(s) == {s[i] : i \in 1..Len(s)}

(***************************************************************************)
(* std HashMap<Key, Entry>.  Key equality and hash read the name only, and *)
(* insert over a present key replaces the entry and keeps the stored Key.  *)
(***************************************************************************)
insert(d, key, entry) ==
    IF d[key.value] # None
    THEN [d EXCEPT ![key.value] = Some([key |-> @[1].key, entry |-> entry])]
    ELSE [d EXCEPT ![key.value] = Some([key |-> key, entry |-> entry])]

\* Sender::send of the broadcast channel: fails when no receiver is alive
send(db, evt) ==
    IF db.receivers = 0
    THEN [db |-> db, res |-> Err(ChannelClosed)]
    ELSE [db |-> [db EXCEPT !.events = Append(@, evt)], res |-> OkCount(db.receivers)]

(***************************************************************************)
(* DB::get                                                                 *)
(***************************************************************************)
get(db, k) ==
    IF db.data[k] = None THEN Ok(None)
    ELSE IF db.data[k][1].entry.value.type = "String"
         THEN Ok(Some(db.data[k][1].entry.value.s))
         ELSE Err(WrongType)

(***************************************************************************)
(* DB::set                                                                 *)
(***************************************************************************)
setMutKeepsOld(db, k, v, expiry_ts) ==
    IF db.data[k] # None
    THEN [db |-> db, res |-> Ok(None)]
    ELSE [db |-> [db EXCEPT !.data = insert(@, Key(k, expiry_ts), Entry(v))],
          res |-> Ok(None)]

set(db, k, v, expiry_ts) ==
    LET key == Key(k, expiry_ts)
        existing_kv_pair == db.data[k]
    IN  IF existing_kv_pair # None /\ existing_kv_pair[1].entry.value.type # "String"
        THEN [db |-> db, res |-> Err(WrongType)]
        ELSE LET db1 == [db EXCEPT !.data = insert(@, key, Entry(v))]
             IN  IF expiry_ts # None
                 THEN LET s == send(db1, SetKeyExpiry(expiry_ts[1], k))
                      IN  IF s.res.ok
                          THEN [db |-> s.db, res |-> Ok(None)]
                          ELSE [db |-> s.db, res |-> Err(s.res.err)]
                 ELSE [db |-> db1, res |-> Ok(None)]


(***************************************************************************)
(* DB::lpush and DB::rpush.  VecDeque::from(v) keeps the order of v;       *)
(* push_front / push_back are applied to each value in argument order.     *)
(***************************************************************************)
RECURSIVE push_front_each(_, _)
push_front_each(l, v) ==
    IF v = <<>> THEN l ELSE push_front_each(<<Head(v)>> \o l, Tail(v))

RECURSIVE push_back_each(_, _)
push_back_each(l, v) ==
    IF v = <<>> THEN l ELSE push_back_each(Append(l, Head(v)), Tail(v))

lpushMutNoTypeCheck(db, k, v) ==
    [db |-> [db EXCEPT !.data[k] = Some([key |-> Key(k, None), entry |-> Entry(List(v))])],
     res |-> OkCount(Len(v))]

lpush(db, k, v) ==
    LET key == Key(k, None)
        entry == db.data[k]
    IN  IF entry # None
        THEN IF entry[1].entry.value.type = "List"
             THEN LET l == push_front_each(entry[1].entry.value.l, v)
                  IN  [db |-> [db EXCEPT !.data[k] = Some([@[1] EXCEPT !.entry.value.l = l])],
                       res |-> OkCount(Len(l))]
             ELSE [db |-> db, res |-> Err(WrongType)]
        ELSE LET list == v
             IN  [db |-> [db EXCEPT !.data = insert(@, key, Entry(List(list)))],
                  res |-> OkCount(Len(list))]

rpush(db, k, v) ==
    LET key == Key(k, None)
        entry == db.data[k]
    IN  IF entry # None
        THEN IF entry[1].entry.value.type = "List"
             THEN LET l == push_back_each(entry[1].entry.value.l, v)
                  IN  [db |-> [db EXCEPT !.data[k] = Some([@[1] EXCEPT !.entry.value.l = l])],
                       res |-> OkCount(Len(l))]
             ELSE [db |-> db, res |-> Err(WrongType)]
        ELSE LET list == v
             IN  [db |-> [db EXCEPT !.data = insert(@, key, Entry(List(list)))],
                  res |-> OkCount(Len(list))]

(***************************************************************************)
(* DB::round_list_index, DB::round_list_indices and DB::lrange.            *)
(***************************************************************************)
\* `x as usize`: a negative i64 wraps to the top of the usize range, which
\* the model places at 2^30, above every list length it builds
as_usize(x) == IF x >= 0 THEN x ELSE x + 2^30

abs(x) == IF x < 0 THEN -x ELSE x

\* round_list_index that leaves an index past the end as it is
round_list_indexMutNoClamp(list_len, idx) ==
    IF idx < 0
    THEN LET i == list_len - abs(idx) IN IF i < 0 THEN 0 ELSE as_usize(i)
    ELSE as_usize(idx)

round_list_index(list_len, idx) ==
    IF idx < 0
    THEN LET i == list_len - abs(idx) IN IF i < 0 THEN 0 ELSE as_usize(i)
    ELSE IF idx >= list_len THEN as_usize(list_len - 1) ELSE as_usize(idx)

round_list_indices(list_len, start_idx, stop_idx) ==
    IF stop_idx < start_idx
    THEN <<0, 0>>
    ELSE LET rounded_start_idx == round_list_index(list_len, start_idx)
             rounded_stop_idx == round_list_index(list_len, stop_idx)
         IN  IF rounded_start_idx < rounded_stop_idx
             THEN <<rounded_start_idx, rounded_stop_idx + 1>>
             ELSE IF rounded_start_idx = rounded_stop_idx
                  THEN <<rounded_start_idx, rounded_start_idx + 1>>
                  ELSE <<0, 0>>

Panic == Err("panic")

\* VecDeque::range(a..b): panics unless a <= b <= len
range(l, a, b) ==
    IF a <= b /\ b <= Len(l) THEN Ok(SubSeq(l, a + 1, b)) ELSE Panic

lrange(db, k, start_idx, stop_idx) ==
    LET entry == db.data[k]
    IN  IF entry = None THEN Ok(<<>>)
        ELSE IF entry[1].entry.value.type = "List"
             THEN LET l == entry[1].entry.value.l
                      r == round_list_indices(Len(l), start_idx, stop_idx)
                  IN  range(l, r[1], r[2])
             ELSE Err(WrongType)

(***************************************************************************)
(* DB::del and DB::bulk_del                                                *)
(***************************************************************************)
del(db, k) ==
    [db |-> [db EXCEPT !.data[k] = None],
     res |-> Ok(IF db.data[k] = None THEN None ELSE Some(db.data[k][1].entry))]

\* the loop of bulk_del: <<data, del_count, del_keys_with_expiry>>
RECURSIVE bulk_del_loop(_, _, _, _)
bulk_del_loop(d, keys, del_count, del_keys_with_expiry) ==
    IF keys = <<>> THEN <<d, del_count, del_keys_with_expiry>>
    ELSE LET k == Head(keys)
             kv_pair == d[k]
         IN  IF kv_pair # None
             THEN bulk_del_loop([d EXCEPT ![k] = None], Tail(keys), del_count + 1,
                      IF kv_pair[1].key.expiry # None
                      THEN Append(del_keys_with_expiry,
                                  <<kv_pair[1].key.expiry[1], kv_pair[1].key.value>>)
                      ELSE del_keys_with_expiry)
             ELSE bulk_del_loop(d, Tail(keys), del_count, del_keys_with_expiry)

bulk_del(db, keys) ==
    LET r == bulk_del_loop(db.data, keys, 0, <<>>)
        db1 == [db EXCEPT !.data = r[1]]
    IN  IF r[3] # <<>>
        THEN LET s == send(db1, BulkDelKeys(r[3]))
             IN  IF s.res.ok
                 THEN [db |-> s.db, res |-> OkCount(r[2])]
                 ELSE [db |-> s.db, res |-> Err(s.res.err)]
        ELSE [db |-> db1, res |-> OkCount(r[2])]

(***************************************************************************)
(* Store calls as actions.  Each records itself in `last`.                 *)
(***************************************************************************)
DBstate == [data |-> data, events |-> events, receivers |-> receivers]

\* the reply of a store call, as the caller sees it
Call(op, k, res) == [op |-> op, k |-> k, res |-> res]

ListOf(d, k) == d[k][1].entry.value.l
IsList(d, k) == d[k] # None /\ d[k][1].entry.value.type = "List"
IsString(d, k) == d[k] # None /\ d[k][1].entry.value.type = "String"

\* room left in the event channel of the model
EventRoom == Len(events) < MaxEvents

\* `written` after a call that left the keyspace as d
WrittenAfter(d) == [n \in Names |-> IF d[n] = data[n] THEN written[n] ELSE None]

\* `written` after set(k, String(v), expiry_ts) left the keyspace as d; the
\* call stored v unless it met an entry of the wrong kind
WrittenAfterSet(d, k, v, expiry_ts, stored, ok) ==
    [n \in Names |-> IF n = k /\ stored
                     THEN Some([v |-> v, expiry |-> expiry_ts, ok |-> ok])
                     ELSE WrittenAfter(d)[n]]

Install(db) ==
    /\ data' = db.data
    /\ events' = db.events
    /\ receivers' = db.receivers

DoGet(k) ==
    /\ last' = Call("get", k, get(DBstate, k))
    /\ UNCHANGED <<data, events, receivers, expiries, permit, sweeper, now, wire, codec, slave, acceptor, fanout, locks, written, conns, out, sockets, replication>>

DoSet(k, v, expiry_ts) ==
    LET r == set(DBstate, k, String(v), expiry_ts)
    IN  /\ Install(r.db)
        /\ last' = Call("set", k, r.res)
        /\ written' = WrittenAfterSet(r.db.data, k, v, expiry_ts,
                                      r.res.err # WrongType, r.res.ok)
        /\ UNCHANGED <<expiries, permit, sweeper, now, wire, codec, slave, acceptor, fanout, locks, conns, out, sockets, replication>>

DoLPush(k, v) ==
    LET r == lpush(DBstate, k, v)
    IN  /\ IsList(data, k) => Len(ListOf(data, k)) + Len(v) <= MaxListLen
        /\ Install(r.db)
        /\ last' = Call("lpush", k, r.res)
        /\ written' = WrittenAfter(r.db.data)
        /\ UNCHANGED <<expiries, permit, sweeper, now, wire, codec, slave, acceptor, fanout, locks, conns, out, sockets, replication>>

DoRPush(k, v) ==
    LET r == rpush(DBstate, k, v)
    IN  /\ IsList(data, k) => Len(ListOf(data, k)) + Len(v) <= MaxListLen
        /\ Install(r.db)
        /\ last' = Call("rpush", k, r.res)
        /\ written' = WrittenAfter(r.db.data)
        /\ UNCHANGED <<expiries, permit, sweeper, now, wire, codec, slave, acceptor, fanout, locks, conns, out, sockets, replication>>

DoLRange(k, start_idx, stop_idx) ==
    /\ last' = Call("lrange", k, lrange(DBstate, k, start_idx, stop_idx))
    /\ UNCHANGED <<data, events, receivers, expiries, permit, sweeper, now, wire, codec, slave, acceptor, fanout, locks, written, conns, out, sockets, replication>>

DoBulkDel(keys) ==
    LET r == bulk_del(DBstate, keys)
    IN  /\ Install(r.db)
        /\ last' = Call("bulk_del", Head(keys), r.res)
        /\ written' = WrittenAfter(r.db.data)
        /\ UNCHANGED <<expiries, permit, sweeper, now, wire, codec, slave, acceptor, fanout, locks, conns, out, sockets, replication>>


(***************************************************************************)
(* KeyEvictor (storage/ttl.rs): the event listener and the eviction loop.  *)
(***************************************************************************)
\* the order of BTreeSet<(OffsetDateTime, String)>
PairLess(p, q) == p[1] < q[1] \/ (p[1] = q[1] /\ NameRank[p[2]] < NameRank[q[2]])

\* BTreeSet::first
first(s) == CHOOSE p \in s : \A q \in s \ {p} : PairLess(p, q)

\* an index that would keep one pair for each name
update_key_expiryMutReplaces(key_expiry, exp) ==
    {p \in exp : p[2] # key_expiry[2]} \cup {key_expiry}

update_key_expiry(key_expiry, exp) == exp \cup {key_expiry}

remove_deleted_key(del_keys, exp) == exp \ Range(del_keys)

Min(a, b) == IF a < b THEN a ELSE b

\* KeyEvictor::run, line 43: subscribe to the store's events, spawn the
\* listener, enter the eviction loop
EvictorRun ==
    /\ sweeper.pc = "new"
    /\ receivers' = receivers + 1
    /\ sweeper' = [sweeper EXCEPT !.pc = "loop"]
    /\ UNCHANGED <<data, events, expiries, permit, now, wire, codec, slave, acceptor, fanout, locks, last, written, conns, out, sockets, replication>>

\* a listener that would update the index and notify nobody
ListenerRecvMutNoNotify ==
    /\ receivers > 0
    /\ events # <<>>
    /\ sweeper.pc # "evict"
    /\ LET evt == Head(events)
       IN  expiries' = IF evt.type = "SetKeyExpiry"
                       THEN update_key_expiry(evt.pairs[1], expiries)
                       ELSE remove_deleted_key(evt.pairs, expiries)
    /\ events' = Tail(events)
    /\ permit' = permit
    /\ UNCHANGED <<data, receivers, sweeper, now, wire, codec, slave, acceptor, fanout, locks, last, written, conns, out, sockets, replication>>

\* the listener: one recv() with the index update under the index mutex
\* (held by the sweeper during a pass) and the notify_one that follows
ListenerRecv ==
    /\ receivers > 0
    /\ events # <<>>
    /\ sweeper.pc # "evict"
    /\ LET evt == Head(events)
       IN  expiries' = IF evt.type = "SetKeyExpiry"
                       THEN update_key_expiry(evt.pairs[1], expiries)
                       ELSE remove_deleted_key(evt.pairs, expiries)
    /\ events' = Tail(events)
    /\ permit' = TRUE
    /\ UNCHANGED <<data, receivers, sweeper, now, wire, codec, slave, acceptor, fanout, locks, last, written, conns, out, sockets, replication>>

\* lines 81-82: read the clock, enter evict_keys and take the index mutex
SweepBegin ==
    /\ sweeper.pc = "loop"
    /\ sweeper' = [sweeper EXCEPT !.pc = "evict", !.utc_now = now]
    /\ UNCHANGED <<data, events, receivers, expiries, permit, now, wire, codec, slave, acceptor, fanout, locks, last, written, conns, out, sockets, replication>>

\* where the sleep of line 95 ends: it starts at the current instant and
\* lasts the whole milliseconds of when - utc_now; the clock of the model
\* stops at MaxTime
WakeAt(when, utc_now) ==
    Min(now + milliseconds(as_u64(whole_milliseconds(when - utc_now))), MaxTime)

\* one turn of the while-let loop of evict_keys, and on return the choice
\* of the wait of lines 90-102
evict_keys ==
    IF expiries = {}
    THEN /\ sweeper' = [pc |-> "wait", utc_now |-> 0, wake |-> 0]
         /\ UNCHANGED <<data, expiries, written>>
    ELSE LET p == first(expiries)
             when == p[1]
             key == p[2]
         IN  IF when > sweeper.utc_now
             THEN /\ sweeper' = [pc |-> "sleep", utc_now |-> 0,
                                  wake |-> WakeAt(when, sweeper.utc_now)]
                  /\ UNCHANGED <<data, expiries, written>>
             ELSE LET r == del(DBstate, key)
                  IN  /\ data' = r.db.data
                      /\ expiries' = expiries \ {p}
                      /\ written' = WrittenAfter(r.db.data)
                      /\ UNCHANGED sweeper

SweepStep ==
    /\ sweeper.pc = "evict"
    /\ evict_keys
    /\ UNCHANGED <<events, receivers, permit, now, wire, codec, slave, acceptor, fanout, locks, last, conns, out, sockets, replication>>

\* line 95: the sleep ran out
SweepTimer ==
    /\ sweeper.pc = "sleep"
    /\ now >= sweeper.wake
    /\ sweeper' = [pc |-> "loop", utc_now |-> 0, wake |-> 0]
    /\ UNCHANGED <<data, events, receivers, expiries, permit, now, wire, codec, slave, acceptor, fanout, locks, last, written, conns, out, sockets, replication>>

\* lines 97 and 101: notified() takes the stored permit
SweepNotified ==
    /\ sweeper.pc \in {"sleep", "wait"}
    /\ permit
    /\ permit' = FALSE
    /\ sweeper' = [pc |-> "loop", utc_now |-> 0, wake |-> 0]
    /\ UNCHANGED <<data, events, receivers, expiries, now, wire, codec, slave, acceptor, fanout, locks, last, written, conns, out, sockets, replication>>

Tick ==
    /\ now < MaxTime
    /\ now' = now + 1
    /\ UNCHANGED <<data, events, receivers, expiries, permit, sweeper, wire, codec, slave, acceptor, fanout, locks, last, written, conns, out, sockets, replication>>

(***************************************************************************)
(* RespType (resp/types.rs) and the commands (command/*.rs).               *)
(***************************************************************************)
SimpleString(s) == [t |-> "SimpleString", s |-> s, n |-> 0, a |-> <<>>]
BulkString(s) == [t |-> "BulkString", s |-> s, n |-> 0, a |-> <<>>]
NullBulkString == [t |-> "NullBulkString", s |-> "", n |-> 0, a |-> <<>>]
Array(a) == [t |-> "Array", s |-> "", n |-> 0, a |-> a]
SimpleError(s) == [t |-> "SimpleError", s |-> s, n |-> 0, a |-> <<>>]
Integer(n) == [t |-> "Integer", s |-> "", n |-> n, a |-> <<>>]

\* Display for DBError
DBErrorText(e) ==
    IF e = WrongType
    THEN "WRONGTYPE Operation against a key holding the wrong kind of value"
    ELSE e

Set(key, value, expiry) == [name |-> "SET", key |-> key, value |-> value, keys |-> <<>>, expiry |-> expiry]
Get(key) == [name |-> "GET", key |-> key, value |-> "", keys |-> <<>>, expiry |-> None]
Del(keys) == [name |-> "DEL", key |-> "", value |-> "", keys |-> keys, expiry |-> None]
LPush(key, value) == [name |-> "LPUSH", key |-> key, value |-> value, keys |-> <<>>, expiry |-> None]
RPush(key, value) == [name |-> "RPUSH", key |-> key, value |-> value, keys |-> <<>>, expiry |-> None]
LRange(key) == [name |-> "LRANGE", key |-> key, value |-> "", keys |-> <<>>, expiry |-> None]
\* the variants whose fields no definition of the model reads: Ping, Info,
\* Multi, Exec, Discard, Psync
Variant(name) == [name |-> name, key |-> "", value |-> "", keys |-> <<>>, expiry |-> None]

Digit == <<"1", "2", "3", "4", "5", "6", "7", "8", "9">>

\* u64::to_string
RECURSIVE to_string(_)
to_string(n) ==
    IF n = 0 THEN "0"
    ELSE IF n < 10 THEN Digit[n]
    ELSE to_string(n \div 10) \o (IF n % 10 = 0 THEN "0" ELSE Digit[n % 10])

\* Set::apply, Get::apply, Del::apply: the store call and its reply
SetApply(db, cmd) ==
    LET r == set(db, cmd.key, String(cmd.value), cmd.expiry)
    IN  [db |-> r.db,
         res |-> IF r.res.ok THEN BulkString("OK") ELSE SimpleError(DBErrorText(r.res.err))]

GetApply(db, cmd) ==
    LET r == get(db, cmd.key)
    IN  [db |-> db,
         res |-> IF r.ok
                 THEN IF r.val # None THEN BulkString(r.val[1]) ELSE NullBulkString
                 ELSE SimpleError(DBErrorText(r.err))]

DelApply(db, cmd) ==
    LET r == bulk_del(db, cmd.keys)
    IN  [db |-> r.db,
         res |-> IF r.res.ok THEN Integer(r.res.count) ELSE SimpleError(DBErrorText(r.res.err))]

\* a build_command that would send the deadline as a time to live
build_commandMutPx(cmd) ==
    Array(<<BulkString("SET"), BulkString(cmd.key), BulkString(cmd.value)>>
          \o (IF cmd.expiry # None
              THEN <<BulkString("PX"),
                     BulkString(to_string(as_u64(whole_milliseconds(cmd.expiry[1]))))>>
              ELSE <<>>))

\* Set::build_command
build_command(cmd) ==
    Array(<<BulkString("SET"), BulkString(cmd.key), BulkString(cmd.value)>>
          \o (IF cmd.expiry # None
              THEN <<BulkString("PXAT"),
                     BulkString(to_string(as_u64(whole_milliseconds(cmd.expiry[1]))))>>
              ELSE <<>>))

\* Command::execute for the commands of the model: SET, GET and DEL
execute(db, cmd) ==
    IF cmd.name = "SET" THEN SetApply(db, cmd)
    ELSE IF cmd.name = "GET" THEN GetApply(db, cmd)
    ELSE DelApply(db, cmd)

\* LPush::build_command and RPush::build_command
PushBuildCommand(cmd) ==
    Array(<<BulkString(cmd.name), BulkString(cmd.key), BulkString(cmd.value)>>)

\* Command::replication_cmd
replication_cmd(cmd) ==
    IF cmd.name = "SET" THEN Some(build_command(cmd))
    ELSE IF cmd.name = "LPUSH" THEN Some(PushBuildCommand(cmd))
    ELSE IF cmd.name = "RPUSH" THEN Some(PushBuildCommand(cmd))
    ELSE None

\* ReplicaPeers::replicate
replicate(repl, resp_data) ==
    IF repl.peers = <<>> THEN repl ELSE [repl EXCEPT !.stream = Append(@, resp_data)]

\* the value a handler hands to write_to_replicas, with the connection whose
\* handler sends it
Sent(c, resp_data) == [data |-> resp_data, by |-> c]

\* Replication.id
ReplicationId == "id"

\* Psync::apply of a PSYNC without offset
PsyncApply == SimpleString("FULLRESYNC " \o ReplicationId \o " -1")

(***************************************************************************)
(* MultiCommand (command/pipelining.rs)                                    *)
(***************************************************************************)
MultiCommandNew == [commands |-> <<>>, is_active |-> FALSE]

initMutRestarts(mc) ==
    IF mc.is_active THEN [mc |-> [mc EXCEPT !.commands = <<>>], ok |-> FALSE]
    ELSE [mc |-> [mc EXCEPT !.is_active = TRUE], ok |-> TRUE]

init(mc) ==
    IF mc.is_active THEN [mc |-> mc, ok |-> FALSE]
    ELSE [mc |-> [mc EXCEPT !.is_active = TRUE], ok |-> TRUE]

add_commandMutKeepsOne(mc, cmd) == [mc EXCEPT !.commands = <<cmd>>]

add_command(mc, cmd) == [mc EXCEPT !.commands = Append(@, cmd)]

\* a discard that would leave the queue as it is
discardMutKeepsQueue(mc) == [mc EXCEPT !.is_active = FALSE]

discardMutStaysActive(mc) == [commands |-> <<>>, is_active |-> TRUE]

discard(mc) == [commands |-> <<>>, is_active |-> FALSE]

(***************************************************************************)
(* FrameHandler::handle (handler.rs), one connection per handler task.     *)
(* A step of a handler is one frame handled up to its next store call or   *)
(* replication call; MultiCommand::exec runs one queued command per step.  *)
(***************************************************************************)
Conns == {"c1", "c2", "c3"}

ReplyMutTwice(c, resp) ==
    /\ out' = resp
    /\ sockets' = [sockets EXCEPT ![c].sent = IF conns[c].pc = "idle" THEN 2 ELSE @ + 2]

\* conn.send(response): the value is written to the socket of c.  `sent` counts
\* the values written since the handler took the frame it is handling, or
\* handled last
Reply(c, resp) ==
    /\ out' = resp
    /\ sockets' = [sockets EXCEPT ![c].sent = IF conns[c].pc = "idle" THEN 1 ELSE @ + 1]

\* a step of the handler of c that writes nothing to its socket
NoReply(c) ==
    /\ UNCHANGED out
    /\ sockets' = [sockets EXCEPT ![c].sent = IF conns[c].pc = "idle" THEN 0 ELSE @]

SetConn(c, mc, pc, responses, direct) ==
    conns' = [conns EXCEPT ![c] = [multicommand |-> mc, pc |-> pc,
                                   responses |-> responses, direct |-> direct,
                                   early |-> pc \in {"repl", "exec_repl"}
                                             /\ replication.peers = <<>>]]

\* `written` after a handler executed cmd with outcome r
WrittenAfterCmd(cmd, r) ==
    IF cmd.name = "SET"
    THEN WrittenAfterSet(r.db.data, cmd.key, cmd.value, cmd.expiry,
                         r.res.s # DBErrorText(WrongType), r.res.t # "SimpleError")
    ELSE WrittenAfter(r.db.data)

\* handler.rs 73-79
Multi(c) ==
    LET h == conns[c]
        r == init(h.multicommand)
    IN  /\ h.pc = "idle"
        /\ sockets[c].st = "open"
        /\ SetConn(c, r.mc, "idle", <<>>, None)
        /\ Reply(c, IF r.ok THEN SimpleString("OK")
                    ELSE SimpleError("MULTI calls cannot be nested"))
        /\ UNCHANGED <<data, events, receivers, expiries, permit, sweeper, now, wire, codec, slave, acceptor, fanout, locks, last,
                       written, replication>>

\* handler.rs 88-95
Discard(c) ==
    LET h == conns[c]
    IN  /\ h.pc = "idle"
        /\ sockets[c].st = "open"
        /\ IF h.multicommand.is_active
           THEN /\ SetConn(c, discard(h.multicommand), "idle", <<>>, None)
                /\ Reply(c, SimpleString("OK"))
           ELSE /\ UNCHANGED conns
                /\ Reply(c, SimpleError("DISCARD without MULTI"))
        /\ UNCHANGED <<data, events, receivers, expiries, permit, sweeper, now, wire, codec, slave, acceptor, fanout, locks, last,
                       written, replication>>

\* handler.rs 125-130: a frame that is no command
CommandErr(c) ==
    LET h == conns[c]
    IN  /\ h.pc = "idle"
        /\ sockets[c].st = "open"
        /\ IF h.multicommand.is_active
           THEN SetConn(c, discard(h.multicommand), "idle", <<>>, None)
           ELSE UNCHANGED conns
        /\ Reply(c, SimpleError("Invalid command format"))
        /\ UNCHANGED <<data, events, receivers, expiries, permit, sweeper, now, wire, codec, slave, acceptor, fanout, locks, last,
                       written, replication>>

\* handler.rs 110-123: queue the command, or execute it up to the await of
\* write_to_replicas
Command(c, cmd) ==
    LET h == conns[c]
        r == execute(DBstate, cmd)
    IN  /\ h.pc = "idle"
        /\ sockets[c].st = "open"
        /\ IF h.multicommand.is_active
           THEN /\ SetConn(c, add_command(h.multicommand, cmd), "idle", <<>>, None)
                /\ Reply(c, SimpleString("QUEUED"))
                /\ UNCHANGED <<data, events, receivers, written>>
           ELSE /\ Install(r.db)
                /\ written' = WrittenAfterCmd(cmd, r)
                /\ IF replication_cmd(cmd) # None
                   THEN /\ SetConn(c, h.multicommand, "repl", <<r.res>>, Some(cmd))
                        /\ NoReply(c)
                   ELSE /\ UNCHANGED conns
                        /\ Reply(c, r.res)
        /\ UNCHANGED <<expiries, permit, sweeper, now, wire, codec, slave, acceptor, fanout, locks, last, replication>>

\* handler.rs 117-121: write_to_replicas of a directly executed command, then its reply
Replicate(c) ==
    LET h == conns[c]
    IN  /\ h.pc = "repl"
        /\ replication' = replicate(replication, Sent(c, replication_cmd(h.direct[1])[1]))
        /\ SetConn(c, h.multicommand, "idle", <<>>, None)
        /\ Reply(c, h.responses[1])
        /\ UNCHANGED <<data, events, receivers, expiries, permit, sweeper, now, wire, codec, slave, acceptor, fanout, locks, last, written>>

\* handler.rs 81-87: EXEC enters MultiCommand::exec
Exec(c) ==
    LET h == conns[c]
    IN  /\ h.pc = "idle"
        /\ sockets[c].st = "open"
        /\ IF ~h.multicommand.is_active
           THEN /\ UNCHANGED conns
                /\ Reply(c, SimpleError("EXEC without MULTI"))
           ELSE IF h.multicommand.commands = <<>>
                THEN /\ SetConn(c, discard(h.multicommand), "idle", <<>>, None)
                     /\ Reply(c, Array(<<>>))
                ELSE /\ SetConn(c, h.multicommand, "exec", <<>>, None)
                     /\ NoReply(c)
        /\ UNCHANGED <<data, events, receivers, expiries, permit, sweeper, now, wire, codec, slave, acceptor, fanout, locks, last,
                       written, replication>>

\* pipelining.rs 69-84: the loop moves to its next command, or ends with
\* discard and the Array of the responses
execMutStopsAtError(c, mc, responses) ==
    IF Len(responses) = Len(mc.commands) \/ responses[Len(responses)].t = "SimpleError"
    THEN /\ SetConn(c, discard(mc), "idle", <<>>, None)
         /\ Reply(c, Array(responses))
    ELSE /\ SetConn(c, mc, "exec", responses, None)
         /\ NoReply(c)

exec(c, mc, responses) ==
    IF Len(responses) = Len(mc.commands)
    THEN /\ SetConn(c, discard(mc), "idle", <<>>, None)
         /\ Reply(c, Array(responses))
    ELSE /\ SetConn(c, mc, "exec", responses, None)
         /\ NoReply(c)

\* pipelining.rs 69-78: execute the next queued command
ExecStep(c) ==
    LET h == conns[c]
        cmd == h.multicommand.commands[Len(h.responses) + 1]
        r == execute(DBstate, cmd)
        responses == Append(h.responses, r.res)
    IN  /\ h.pc = "exec"
        /\ Install(r.db)
        /\ written' = WrittenAfterCmd(cmd, r)
        /\ IF replication_cmd(cmd) # None
           THEN /\ SetConn(c, h.multicommand, "exec_repl", responses, None)
                /\ NoReply(c)
           ELSE exec(c, h.multicommand, responses)
        /\ UNCHANGED <<expiries, permit, sweeper, now, wire, codec, slave, acceptor, fanout, locks, last, replication>>

\* pipelining.rs 74-76: write_to_replicas of the command just executed
ExecReplicate(c) ==
    LET h == conns[c]
        cmd == h.multicommand.commands[Len(h.responses)]
    IN  /\ h.pc = "exec_repl"
        /\ replication' = replicate(replication, Sent(c, replication_cmd(cmd)[1]))
        /\ exec(c, h.multicommand, h.responses)
        /\ UNCHANGED <<data, events, receivers, expiries, permit, sweeper, now, wire, codec, slave, acceptor, fanout, locks, last, written>>

\* handler.rs 139-142: the codec reports a malformed frame
ProtocolErr(c) ==
    /\ conns[c].pc = "idle"
    /\ sockets[c].st = "open"
    /\ SetConn(c, MultiCommandNew, "end", <<>>, None)
    /\ sockets' = [sockets EXCEPT ![c] = [@ EXCEPT !.st = "closed", !.sent = 0]]
    /\ UNCHANGED <<data, events, receivers, expiries, permit, sweeper, now, wire, codec, slave, acceptor, fanout, locks, last,
                   written, out, replication>>

PsyncMutIgnoresSendError(c, sent) ==
    /\ conns[c].pc = "idle"
    /\ sockets[c].st = "open"
    /\ SetConn(c, MultiCommandNew, "psync", <<>>, None)
    /\ IF sent THEN Reply(c, PsyncApply) ELSE NoReply(c)
    /\ UNCHANGED <<data, events, receivers, expiries, permit, sweeper, now, wire, codec, slave, acceptor, fanout, locks, last,
                   written, replication>>

\* handler.rs 96-105: PSYNC.  The FULLRESYNC reply is sent and flushed (sent),
\* or the send or the flush fails and the handler ends
Psync(c, sent) ==
    /\ conns[c].pc = "idle"
    /\ sockets[c].st = "open"
    /\ IF sent
       THEN /\ SetConn(c, MultiCommandNew, "psync", <<>>, None)
            /\ Reply(c, PsyncApply)
       ELSE /\ SetConn(c, MultiCommandNew, "end", <<>>, None)
            /\ sockets' = [sockets EXCEPT ![c] = [@ EXCEPT !.st = "closed", !.sent = 0]]
            /\ UNCHANGED out
    /\ UNCHANGED <<data, events, receivers, expiries, permit, sweeper, now, wire, codec, slave, acceptor, fanout, locks, last,
                   written, replication>>

\* peer.rs 37: add_peer subscribes the receiver of the new peer, which sees
\* the values sent from now on
AddPeerSubscribe(c) ==
    /\ conns[c].pc = "psync"
    /\ replication' = [replication EXCEPT
                          !.rx[c] = [st |-> "new", pos |-> Len(replication.stream) + 1]]
    /\ SetConn(c, MultiCommandNew, "add_peer", <<>>, None)
    /\ UNCHANGED <<data, events, receivers, expiries, permit, sweeper, now, wire, codec, slave, acceptor, fanout, locks, last,
                   written, out, sockets>>

\* peer.rs 39-44 and handler.rs 106-107: under the lock of the registry the
\* writer task is spawned and the peer pushed; the handler ends
AddPeerPush(c) ==
    /\ conns[c].pc = "add_peer"
    /\ replication' = [replication EXCEPT !.peers = Append(@, c), !.rx[c].st = "run"]
    /\ SetConn(c, MultiCommandNew, "end", <<>>, None)
    /\ sockets' = [sockets EXCEPT ![c].st = "peer"]
    /\ UNCHANGED <<data, events, receivers, expiries, permit, sweeper, now, wire, codec, slave, acceptor, fanout, locks, last,
                   written, out>>

\* broadcast::channel(64)
BroadcastCapacity == 64

\* rx.recv() returns Err(RecvError::Lagged): more values than the channel
\* holds have been sent since the one the receiver is to take next
Lagged(rx) == Len(replication.stream) - rx.pos + 1 > BroadcastCapacity

PeerWriteMutNewestFirst(p, ok) ==
    LET rx == replication.rx[p]
    IN  /\ rx.st = "run"
        /\ rx.pos <= Len(replication.stream)
        /\ sockets' = [sockets EXCEPT ![p].got = <<rx.pos>> \o @]
        /\ replication' = [replication EXCEPT !.rx[p].pos = @ + 1]
        /\ UNCHANGED <<data, events, receivers, expiries, permit, sweeper, now, wire, codec, slave, acceptor, fanout, locks, last,
                       written, conns, out>>

PeerWriteMutSameValue(p, ok) ==
    LET rx == replication.rx[p]
    IN  /\ rx.st = "run"
        /\ rx.pos <= Len(replication.stream)
        /\ Len(sockets[p].got) < MaxStream
        /\ sockets' = [sockets EXCEPT ![p].got = Append(@, rx.pos)]
        /\ UNCHANGED <<data, events, receivers, expiries, permit, sweeper, now, wire, codec, slave, acceptor, fanout, locks, last,
                       written, conns, out, replication>>

\* peer.rs 104-109: the writer task of peer p receives its next value and
\* writes it to the socket (written), or the write fails and the loop ends.
\* `got` lists the positions in the channel of the values written.
PeerWrite(p, ok) ==
    LET rx == replication.rx[p]
    IN  /\ rx.st = "run"
        /\ rx.pos <= Len(replication.stream)
        /\ ~Lagged(rx)
        /\ IF ok
           THEN /\ sockets' = [sockets EXCEPT ![p].got = Append(@, rx.pos)]
                /\ replication' = [replication EXCEPT !.rx[p].pos = @ + 1]
           ELSE /\ sockets' = [sockets EXCEPT ![p].st = "closed"]
                /\ replication' = [replication EXCEPT !.rx[p] = [st |-> "failed", pos |-> 0]]
        /\ UNCHANGED <<data, events, receivers, expiries, permit, sweeper, now, wire, codec, slave, acceptor, fanout, locks, last,
                       written, conns, out>>

\* peer.rs 104: rx.recv() returns an error to a receiver that has fallen
\* behind, which ends the loop of the writer task
PeerLagged(p) ==
    /\ replication.rx[p].st = "run"
    /\ Lagged(replication.rx[p])
    /\ replication' = [replication EXCEPT !.rx[p] = [st |-> "lagged", pos |-> 0]]
    /\ UNCHANGED <<data, events, receivers, expiries, permit, sweeper, now, wire, codec, slave, acceptor, fanout, locks, last,
                   written, conns, out, sockets>>

\* peer.rs 112-115: the writer task removes its peer from the registry; the
\* peer and its socket are dropped
PeerRemove(p) ==
    /\ replication.rx[p].st \in {"failed", "lagged"}
    /\ replication' = [replication EXCEPT
                          !.peers = SelectSeq(@, LAMBDA x : x # p),
                          !.rx[p] = [st |-> "gone", pos |-> 0]]
    /\ sockets' = [sockets EXCEPT ![p].st = "closed"]
    /\ UNCHANGED <<data, events, receivers, expiries, permit, sweeper, now, wire, codec, slave, acceptor, fanout, locks, last,
                   written, conns, out>>

(***************************************************************************)
(* RESP on the wire (resp/types.rs).  A text is a string of characters and *)
(* a buffer a string of bytes.  In a text "@" stands for a character that  *)
(* UTF-8 writes as two bytes, shown as "{" and "}" in a buffer; every      *)
(* other character is one byte, shown as itself.                           *)
(***************************************************************************)
CRLF == "\r\n"

\* the byte at position i (from 1), "" past the end; the bytes after the first i
at(buf, i) == IF i \in 1..Len(buf) THEN SubSeq(buf, i, i) ELSE ""
from(buf, i) == IF i >= Len(buf) THEN "" ELSE SubSeq(buf, i + 1, Len(buf))

\* String::into_bytes
RECURSIVE into_bytes(_)
into_bytes(text) ==
    IF text = "" THEN ""
    ELSE (IF at(text, 1) = "@" THEN "{}" ELSE at(text, 1)) \o into_bytes(from(text, 1))

\* String::from_utf8: the text of the bytes, or an error
RECURSIVE from_utf8(_)
from_utf8(bytes) ==
    IF bytes = "" THEN [ok |-> TRUE, text |-> ""]
    ELSE IF at(bytes, 1) = "{"
         THEN IF at(bytes, 2) = "}"
              THEN LET r == from_utf8(from(bytes, 2))
                   IN  [ok |-> r.ok, text |-> IF r.ok THEN "@" \o r.text ELSE ""]
              ELSE [ok |-> FALSE, text |-> ""]
         ELSE IF at(bytes, 1) = "}" THEN [ok |-> FALSE, text |-> ""]
         ELSE LET r == from_utf8(from(bytes, 1))
              IN  [ok |-> r.ok, text |-> IF r.ok THEN at(bytes, 1) \o r.text ELSE ""]

\* str::chars().count() and str::len()
chars_count(text) == Len(text)
byte_len(text) == Len(into_bytes(text))

\* RespType::to_bytes
RECURSIVE to_bytes(_)
RECURSIVE extend_each(_, _)
extend_each(arr_bytes, arr) ==
    IF arr = <<>> THEN arr_bytes
    ELSE extend_each(arr_bytes \o to_bytes(Head(arr)), Tail(arr))

to_bytes(v) ==
    IF v.t = "SimpleString" THEN "+" \o into_bytes(v.s) \o CRLF
    ELSE IF v.t = "BulkString"
         THEN "$" \o to_string(chars_count(v.s)) \o CRLF \o into_bytes(v.s) \o CRLF
    ELSE IF v.t = "NullBulkString" THEN "$-1" \o CRLF
    ELSE IF v.t = "Array" THEN extend_each("*" \o to_string(Len(v.a)) \o CRLF, v.a)
    ELSE "-" \o into_bytes(v.s) \o CRLF

\* Result<(RespType, usize), RespError>, and the panic of an index out of range
Parsed(v, n) == [ok |-> TRUE, val |-> v, used |-> n, err |-> ""]
RespErr(e) == [ok |-> FALSE, val |-> NullBulkString, used |-> 0, err |-> e]
IndexPanic == RespErr("panic")

\* RespType::read_till_crlf
read_till_crlf(buf) ==
    LET hits == {i \in 2..Len(buf) : at(buf, i - 1) = "\r" /\ at(buf, i) = "\n"}
    IN  IF hits = {} THEN None
        ELSE LET i == CHOOSE h \in hits : \A g \in hits : h <= g
             IN  Some([data |-> SubSeq(buf, 1, i - 2), len |-> i])

DigitBytes == <<"0", "1", "2", "3", "4", "5", "6", "7", "8", "9">>

\* str::parse::<usize> on an optional '+' and decimal digits
RECURSIVE digits_value(_)
digits_value(d) ==
    IF d = "" THEN 0
    ELSE 10 * digits_value(SubSeq(d, 1, Len(d) - 1))
         + (CHOOSE n \in 0..9 : DigitBytes[n + 1] = at(d, Len(d)))

\* RespType::parse_usize_from_buf
parse_usize_from_buf(buf) ==
    LET d == IF at(buf, 1) = "+" THEN from(buf, 1) ELSE buf
    IN  IF ~from_utf8(buf).ok THEN [ok |-> FALSE, n |-> 0, err |-> "Invalid UTF-8 string"]
        ELSE IF d = "" \/ \E i \in 1..Len(d) : at(d, i) \notin Range(DigitBytes)
             THEN [ok |-> FALSE, n |-> 0, err |-> "Invalid value for an integer"]
        ELSE [ok |-> TRUE, n |-> digits_value(d), err |-> ""]

\* RespType::new_bulk_string
new_bulk_string(buffer) ==
    IF buffer = "" THEN IndexPanic
    ELSE LET head == read_till_crlf(from(buffer, 1))
         IN  IF head = None THEN RespErr("Invalid value for bulk string")
             ELSE LET len == parse_usize_from_buf(head[1].data)
                      bytes_consumed == head[1].len + 1
                      bulkstr_end_idx == bytes_consumed + len.n
                      bulkstr == from_utf8(SubSeq(buffer, bytes_consumed + 1, bulkstr_end_idx))
                  IN  IF ~len.ok THEN RespErr(len.err)
                      ELSE IF bulkstr_end_idx >= Len(buffer)
                           THEN RespErr("Invalid value for bulk string length")
                      ELSE IF bulkstr.ok
                           THEN Parsed(BulkString(bulkstr.text), bulkstr_end_idx + 2)
                      ELSE RespErr("Bulk string value is not a valid UTF-8 string")

\* RespType::parse and RespType::new_array, with the loop of new_array over
\* its items
RECURSIVE parse(_)
RECURSIVE new_array_items(_, _, _, _)
new_array_items(buffer, left, items, bytes_consumed) ==
    IF left = 0 THEN Parsed(Array(items), bytes_consumed)
    ELSE IF bytes_consumed >= Len(buffer) THEN RespErr("Invalid value for array length")
    ELSE LET item == parse(from(buffer, bytes_consumed))
         IN  IF item.ok
             THEN new_array_items(buffer, left - 1, Append(items, item.val),
                                  bytes_consumed + item.used)
             ELSE item

new_array(buffer) ==
    IF buffer = "" THEN IndexPanic
    ELSE LET head == read_till_crlf(from(buffer, 1))
         IN  IF head = None THEN RespErr("Invalid value for array")
             ELSE LET arr_len == parse_usize_from_buf(head[1].data)
                  IN  IF ~arr_len.ok THEN RespErr(arr_len.err)
                      ELSE new_array_items(buffer, arr_len.n, <<>>, head[1].len + 1)

parse(buffer) ==
    IF buffer = "" THEN IndexPanic
    ELSE IF at(buffer, 1) = "$" THEN new_bulk_string(buffer)
    ELSE IF at(buffer, 1) = "*" THEN new_array(buffer)
    ELSE RespErr("Invalid RESP data type prefix")

\* Result<Option<(usize, usize)>, RespError> of the two length parsers
LenSome(len, bytes_read) ==
    [ok |-> TRUE, some |-> TRUE, len |-> len, read |-> bytes_read, err |-> ""]
LenNone == [ok |-> TRUE, some |-> FALSE, len |-> 0, read |-> 0, err |-> ""]
LenErr(e) == [ok |-> FALSE, some |-> FALSE, len |-> 0, read |-> 0, err |-> e]

\* RespType::parse_array_len
parse_array_len(src) ==
    LET head == read_till_crlf(src)
    IN  IF head = None THEN LenNone
        ELSE IF head[1].len < 4 \/ at(head[1].data, 1) # "*"
             THEN LenErr("Not a valid RESP array")
        ELSE LET len == parse_usize_from_buf(from(head[1].data, 1))
             IN  IF len.ok THEN LenSome(len.n, head[1].len) ELSE LenErr(len.err)

\* parse_bulk_string_len that takes a header without its CRLF for an error
parse_bulk_string_lenMutNoWait(src) ==
    LET head == read_till_crlf(src)
    IN  IF head = None \/ head[1].len < 4 \/ at(head[1].data, 1) # "$"
        THEN LenErr("Not a valid RESP bulk string")
        ELSE LET len == parse_usize_from_buf(from(head[1].data, 1))
             IN  IF len.ok THEN LenSome(len.n, head[1].len) ELSE LenErr(len.err)

\* RespType::parse_bulk_string_len
parse_bulk_string_len(src) ==
    LET head == read_till_crlf(src)
    IN  IF head = None THEN LenNone
        ELSE IF head[1].len < 4 \/ at(head[1].data, 1) # "$"
             THEN LenErr("Not a valid RESP bulk string")
        ELSE LET len == parse_usize_from_buf(from(head[1].data, 1))
             IN  IF len.ok THEN LenSome(len.n, head[1].len) ELSE LenErr(len.err)

(***************************************************************************)
(* The encoder and the parser applied to a value: wire holds the value,    *)
(* its bytes, the buffer handed to a parser and what the parser returned.  *)
(***************************************************************************)
MaxArrayLen == 2

Texts == {"", "h", "@", "h@", "hh"}
Scalars ==
    {SimpleString("h"), SimpleError("h"), NullBulkString}
        \cup {BulkString(t) : t \in Texts}
ArrayItems == {BulkString("h"), BulkString("@"), BulkString(""), SimpleString("h")}
FlatArrays ==
    {Array(a) : a \in UNION {[1..k -> ArrayItems] : k \in 0..MaxArrayLen}}
NestedArrays ==
    {Array(<<Array(<<x>>)>>) : x \in {BulkString("h"), BulkString("@")}}
        \cup {Array(<<Array(<<>>), BulkString("h")>>),
              Array(<<BulkString("h"), Array(<<BulkString("hh")>>)>>)}
RespValues == Scalars \cup FlatArrays \cup NestedArrays

RespNew(v) ==
    [v |-> v, op |-> "new", bytes |-> "", buf |-> "", res |-> None, len |-> None]

RespRest ==
    UNCHANGED <<data, events, receivers, expiries, permit, sweeper, now, last, written,
                conns, out, sockets, replication, codec, slave, acceptor, fanout, locks>>

\* v.to_bytes()
ToBytes ==
    /\ wire.op = "new"
    /\ wire' = [wire EXCEPT !.op = "to_bytes", !.bytes = to_bytes(wire.v)]
    /\ RespRest

\* RespType::parse on the first n bytes of the value's bytes
Parse(n) ==
    /\ wire.op = "to_bytes"
    /\ wire' = [wire EXCEPT !.op = "parse", !.buf = SubSeq(wire.bytes, 1, n),
                            !.res = Some(parse(SubSeq(wire.bytes, 1, n)))]
    /\ RespRest

\* RespType::parse_array_len on the first n bytes of the value's bytes
ParseArrayLen(n) ==
    /\ wire.op = "to_bytes"
    /\ wire' = [wire EXCEPT !.op = "parse_array_len", !.buf = SubSeq(wire.bytes, 1, n),
                            !.len = Some(parse_array_len(SubSeq(wire.bytes, 1, n)))]
    /\ RespRest

\* RespType::parse_bulk_string_len on the first n bytes of the value's bytes
ParseBulkStringLen(n) ==
    /\ wire.op = "to_bytes"
    /\ wire' = [wire EXCEPT !.op = "parse_bulk_string_len",
                            !.buf = SubSeq(wire.bytes, 1, n),
                            !.len = Some(parse_bulk_string_len(SubSeq(wire.bytes, 1, n)))]
    /\ RespRest

(***************************************************************************)
(* The framed codec of one socket (Framed<TcpStream, RespCommandFrame>):   *)
(* bytes arrive in reads of any size and are appended to the buffer, and   *)
(* the decoder is run on the buffer until it asks for more.  The decoder   *)
(* follows section 4.2 of the specification on the two length parsers and  *)
(* new_bulk_string of resp/types.rs.                                       *)
(***************************************************************************)
\* the outcome of one call of decode: Ok(Some(frame)), Ok(None) or Err
Decoded(src, cmd, item) == [ok |-> TRUE, buffer |-> src, cmd |-> cmd, item |-> item]
DecodeErr(src, cmd) == [ok |-> FALSE, buffer |-> src, cmd |-> cmd, item |-> None]

\* awaiting_array_body(left): the bulk strings of the array, one after another
RECURSIVE decode_body(_, _, _)
decode_body(src, left, parts) ==
    IF left = 0 THEN Decoded(src, None, Some(Array(parts)))
    ELSE LET h == parse_bulk_string_len(src)
             here == Some([left |-> left, parts |-> parts])
         IN  IF ~h.ok THEN DecodeErr(src, here)
             ELSE IF ~h.some \/ Len(src) < h.read + h.len + 2 THEN Decoded(src, here, None)
             ELSE LET b == new_bulk_string(src)
                  IN  IF b.ok THEN decode_body(from(src, b.used), left - 1, Append(parts, b.val))
                      ELSE DecodeErr(src, here)

\* RespCommandFrame::decode
decode(src, cmd) ==
    IF cmd = None
    THEN LET h == parse_array_len(src)
         IN  IF ~h.ok THEN DecodeErr(src, None)
             ELSE IF ~h.some THEN Decoded(src, None, None)
             ELSE decode_body(from(src, h.read), h.len, <<>>)
    ELSE decode_body(src, cmd[1].left, cmd[1].parts)

\* frames as clients send them, with the bytes of each; the last one holds a
\* character of two bytes under a header that counts bytes
AsciiTexts == {"", "h", "hh"}
CommandFrames ==
    {Array(a) : a \in UNION {[1..k -> {BulkString(t) : t \in AsciiTexts}] : k \in 1..MaxArrayLen}}
WireFrames ==
    {[v |-> v, bytes |-> to_bytes(v)] : v \in CommandFrames}
        \cup {[v |-> Array(<<BulkString("@")>>), bytes |-> "*1\r\n$2\r\n{}\r\n"]}

\* what follows the frame on the socket: nothing, the start of a frame, a frame
FollowBytes == {"", "*1\r\n$1\r", "*1\r\n$1\r\nh\r\n"}

CodecNew ==
    [pc |-> "new", frame |-> NullBulkString, follow |-> "", rest |-> "", buffer |-> "",
     cmd |-> None, frames |-> <<>>, readable |-> FALSE]

\* Framed::with_capacity on a socket that will carry f and then follow
CodecOpen(f, follow) ==
    [CodecNew EXCEPT !.pc = "open", !.frame = f.v, !.follow = follow,
                     !.rest = f.bytes \o follow]

CodecRest ==
    UNCHANGED <<data, events, receivers, expiries, permit, sweeper, now, last, written,
                conns, out, sockets, replication, wire, slave, acceptor, fanout, locks>>

\* a read of the socket that returns the next n bytes
SocketRead(n) ==
    /\ codec.pc = "open"
    /\ ~codec.readable
    /\ n \in 1..Len(codec.rest)
    /\ codec' = [codec EXCEPT !.buffer = @ \o SubSeq(codec.rest, 1, n),
                              !.rest = from(@, n),
                              !.readable = TRUE]
    /\ CodecRest

\* Framed::poll_next on a readable buffer: one call of decode
Decode ==
    /\ codec.pc = "open"
    /\ codec.readable
    /\ LET r == decode(codec.buffer, codec.cmd)
       IN  codec' = [codec EXCEPT !.pc = IF r.ok THEN "open" ELSE "err",
                                  !.buffer = r.buffer,
                                  !.cmd = r.cmd,
                                  !.frames = IF r.item = None THEN @ ELSE Append(@, r.item[1]),
                                  !.readable = r.ok /\ r.item # None]
    /\ CodecRest

(***************************************************************************)
(* MasterServer::perform_handshake of a server started as a slave          *)
(* (replication/master.rs): PING, the reply to it, PSYNC, the reply to it. *)
(* Each read of the BytesCodec returns the bytes that have arrived, which  *)
(* may be a part of the master's reply.                                    *)
(***************************************************************************)
\* Ping::build_command and Psync::new("?", None).build_command
PingBuildCommand == Array(<<BulkString("PING")>>)
PsyncBuildCommand == Array(<<BulkString("PSYNC"), BulkString("?"), BulkString("-1")>>)

\* str::starts_with
starts_with(s, prefix) == Len(s) >= Len(prefix) /\ SubSeq(s, 1, Len(prefix)) = prefix

\* RespType::new_simple_string: "+<text>\r\n"
new_simple_string(buffer) ==
    IF buffer = "" THEN IndexPanic
    ELSE LET head == read_till_crlf(from(buffer, 1))
         IN  IF at(buffer, 1) # "+" \/ head = None
             THEN RespErr("Invalid value for simple string")
             ELSE LET text == from_utf8(head[1].data)
                  IN  IF text.ok THEN Parsed(SimpleString(text.text), head[1].len + 1)
                      ELSE RespErr("Simple string value is not a valid UTF-8 string")

\* handshake_frame.next().await.transpose(): Err, Ok(None), Ok(Some(bytes))
ReadErr == [k |-> "err", b |-> ""]
ReadNone == [k |-> "none", b |-> ""]
ReadSome(b) == [k |-> "some", b |-> b]

MasterReplies ==
    {"+PONG\r\n", "+NOPE\r\n", "+FULLRESYNC id -1\r\n", "+FULLRESYNC\r\n",
     "$4\r\nPONG\r\n", "$10\r\nFULLRESYNC\r\n", "-ERR\r\n"}
ReadOutcomes ==
    {ReadErr, ReadNone}
        \cup UNION {{ReadSome(SubSeq(m, 1, n)) : n \in 1..Len(m)} : m \in MasterReplies}

SlaveNew ==
    [pc |-> "new", sent |-> <<>>, pong |-> ReadNone, full |-> ReadNone, result |-> "none"]

SlaveRest ==
    UNCHANGED <<data, events, receivers, expiries, permit, sweeper, now, last, written,
                conns, out, sockets, replication, wire, codec, acceptor, fanout, locks>>

HandshakeErr(sl) == [sl EXCEPT !.pc = "done", !.result = "err"]

\* perform_handshake up to the first read: PING is sent, or the send fails
HandshakePing(sent) ==
    /\ slave.pc = "new"
    /\ slave' = IF sent
                THEN [slave EXCEPT !.pc = "ping_sent",
                                   !.sent = <<to_bytes(PingBuildCommand)>>]
                ELSE HandshakeErr(slave)
    /\ SlaveRest

\* perform_handshake from the reply to PING to the second read: the reply is
\* validated, then PSYNC is sent, or the send fails
HandshakePong(r, sent) ==
    /\ slave.pc = "ping_sent"
    /\ LET resp_val == new_simple_string(r.b)
           valid == /\ r.k = "some"
                    /\ resp_val.ok
                    /\ resp_val.val.t = "SimpleString" => resp_val.val.s = "PONG"
           sl == [slave EXCEPT !.pong = r]
       IN  slave' = IF valid /\ sent
                    THEN [sl EXCEPT !.pc = "psync_sent",
                                    !.sent = Append(@, to_bytes(PsyncBuildCommand))]
                    ELSE HandshakeErr(sl)
    /\ SlaveRest

\* perform_handshake from the reply to PSYNC to its return
HandshakeFullresync(r) ==
    /\ slave.pc = "psync_sent"
    /\ LET resp_val == new_simple_string(r.b)
           valid == /\ r.k = "some"
                    /\ resp_val.ok
                    /\ resp_val.val.t = "BulkString"
                          => starts_with(resp_val.val.s, "FULLRESYNC")
           sl == [slave EXCEPT !.full = r]
       IN  slave' = IF valid THEN [sl EXCEPT !.pc = "done", !.result = "ok"]
                    ELSE HandshakeErr(sl)
    /\ SlaveRest

(***************************************************************************)
(* Admission (main.rs): the acceptor loop takes a socket, waits up to five *)
(* seconds for a permit of the max_conn semaphore and sends the socket     *)
(* with its permit to the command handler runtime; the permit goes back    *)
(* to the semaphore when the handler of the socket returns.                *)
(***************************************************************************)
\* cli.maxclients, and the connections the listener accepts
MaxClients == 2
MaxSockets == 4

\* mpsc::channel(10)
ChannelCapacity == 10

Sockets == 1..MaxSockets

SocketNew ==
    [st |-> "none", permit |-> FALSE, forwarded |-> FALSE, timedout |-> FALSE, answer |-> ""]

AcceptorNew ==
    [pc |-> "accept", sock |-> 0, accepted |-> 0, permits |-> MaxClients, chan |-> <<>>,
     socks |-> [s \in Sockets |-> SocketNew]]

AcceptorRest ==
    UNCHANGED <<data, events, receivers, expiries, permit, sweeper, now, last, written,
                conns, out, sockets, replication, wire, codec, slave, fanout, locks>>

\* accept_conn: listener.accept() and the socket options; a failure drops
\* the socket and the loop of main goes on
Accept(configured) ==
    /\ acceptor.pc = "accept"
    /\ acceptor.accepted < MaxSockets
    /\ LET s == acceptor.accepted + 1
       IN  acceptor' = [acceptor EXCEPT !.accepted = s,
                                        !.sock = IF configured THEN s ELSE 0,
                                        !.pc = IF configured THEN "acquire" ELSE "accept",
                                        !.socks[s].st = IF configured THEN "accepted" ELSE "closed"]
    /\ AcceptorRest

\* Acquire that takes a permit the semaphore does not have
AcquireMutOverdraw ==
    /\ acceptor.pc = "acquire"
    /\ acceptor' = [acceptor EXCEPT !.permits = IF @ > 0 THEN @ - 1 ELSE 0,
                                    !.socks[acceptor.sock].permit = TRUE,
                                    !.pc = "send"]
    /\ AcceptorRest

\* accept_conn: acquire_owned() returns a permit within the timeout
Acquire ==
    /\ acceptor.pc = "acquire"
    /\ acceptor.permits > 0
    /\ acceptor' = [acceptor EXCEPT !.permits = @ - 1,
                                    !.socks[acceptor.sock].permit = TRUE,
                                    !.pc = "send"]
    /\ AcceptorRest

\* accept_conn: no permit within five seconds: the error is written (the
\* write may fail), the socket dropped and ConnectionError::Timeout returned
AcquireTimeout(written_all) ==
    /\ acceptor.pc = "acquire"
    /\ acceptor.permits = 0
    /\ acceptor' = [acceptor EXCEPT
           !.socks[acceptor.sock].timedout = TRUE,
           !.socks[acceptor.sock].answer =
               IF written_all THEN to_bytes(SimpleError("max number of clients reached"))
               ELSE "",
           !.socks[acceptor.sock].st = "closed",
           !.sock = 0,
           !.pc = "accept"]
    /\ AcceptorRest

\* main: tx.send((sock, _permit)).await, once the channel has room
Forward ==
    /\ acceptor.pc = "send"
    /\ Len(acceptor.chan) < ChannelCapacity
    /\ acceptor' = [acceptor EXCEPT !.chan = Append(@, acceptor.sock),
                                    !.socks[acceptor.sock].st = "queued",
                                    !.socks[acceptor.sock].forwarded = TRUE,
                                    !.sock = 0,
                                    !.pc = "accept"]
    /\ AcceptorRest

\* the command handler runtime: rx.recv() and Server::handle_commands, which
\* starts the handler of the socket and gives it the permit
HandleCommands ==
    /\ acceptor.chan # <<>>
    /\ acceptor' = [acceptor EXCEPT !.chan = Tail(@),
                                    !.socks[Head(acceptor.chan)].st = "handled"]
    /\ AcceptorRest

\* the handler of a socket returns: socket and permit are dropped
HandlerReturn(s) ==
    /\ acceptor.socks[s].st = "handled"
    /\ acceptor' = [acceptor EXCEPT !.socks[s].st = "closed",
                                    !.socks[s].permit = FALSE,
                                    !.permits = @ + 1]
    /\ AcceptorRest


(***************************************************************************)
(* The replica's side of a fanned-out command (command/mod.rs, set.rs,     *)
(* lpush.rs): Command::from_resp_command_frame on the items of the frame.  *)
(***************************************************************************)
\* the latest and the earliest OffsetDateTime, in milliseconds from the epoch
MaxDateMs == 4
MaxDate == milliseconds(MaxDateMs)
MinDate == -MaxDate

\* OffsetDateTime::saturating_add
saturating_add(date, duration) ==
    IF date + duration > MaxDate THEN MaxDate
    ELSE IF date + duration < MinDate THEN MinDate
    ELSE date + duration

\* str::to_lowercase on the names the model sends
to_lowercase(s) ==
    CASE s = "SET" -> "set"
      [] s = "GET" -> "get"
      [] s = "DEL" -> "del"
      [] s = "LPUSH" -> "lpush"
      [] s = "RPUSH" -> "rpush"
      [] s = "PX" -> "px"
      [] s = "PXAT" -> "pxat"
      [] OTHER -> s

CommandOk(cmd) == [ok |-> TRUE, cmd |-> Some(cmd), err |-> ""]
CommandOther(e) == [ok |-> FALSE, cmd |-> None, err |-> e]

\* str::parse::<u64>
parse_u64(text) ==
    LET d == IF at(text, 1) = "+" THEN from(text, 1) ELSE text
    IN  IF d = "" \/ \E i \in 1..Len(d) : at(d, i) \notin Range(DigitBytes)
        THEN [ok |-> FALSE, n |-> 0]
        ELSE IF Len(d) > 10 \/ digits_value(d) >= 2^30
             THEN [ok |-> FALSE, n |-> 0]
             ELSE [ok |-> TRUE, n |-> digits_value(d)]

\* SetOption::parse with get_px and get_pxat: the option at start_idx and the
\* index that follows it
SetOptionParse(opts, start_idx) ==
    IF start_idx > Len(opts) THEN [ok |-> FALSE, opt |-> "", val |-> 0, nxt |-> 0]
    ELSE IF opts[start_idx].t # "BulkString"
    THEN [ok |-> FALSE, opt |-> "", val |-> 0, nxt |-> 0]
    ELSE LET name == to_lowercase(opts[start_idx].s)
         IN  IF name \notin {"px", "pxat"}
             THEN [ok |-> FALSE, opt |-> "", val |-> 0, nxt |-> 0]
             ELSE IF start_idx + 1 > Len(opts) \/ opts[start_idx + 1].t # "BulkString"
             THEN [ok |-> FALSE, opt |-> "", val |-> 0, nxt |-> 0]
             ELSE LET v == parse_u64(opts[start_idx + 1].s)
                  IN  IF ~v.ok THEN [ok |-> FALSE, opt |-> "", val |-> 0, nxt |-> 0]
                      ELSE [ok |-> TRUE, opt |-> name, val |-> v.n, nxt |-> start_idx + 2]

\* the while loop of Set::with_args over the options, lines 66-87
RECURSIVE set_options(_, _, _, _)
set_options(option_args, start_idx, expiry, utc_now) ==
    IF start_idx > Len(option_args) THEN [ok |-> TRUE, expiry |-> expiry]
    ELSE LET o == SetOptionParse(option_args, start_idx)
         IN  IF ~o.ok THEN [ok |-> FALSE, expiry |-> None]
             ELSE set_options(option_args, o.nxt,
                              Some(IF o.opt = "px"
                                   THEN saturating_add(utc_now, milliseconds(as_i64(o.val)))
                                   ELSE saturating_add(0, milliseconds(as_i64(o.val)))),
                              utc_now)

\* Set::with_args
with_args(args, utc_now) ==
    IF Len(args) < 2
    THEN CommandOther("Wrong number of arguments specified for 'SET' command")
    ELSE IF args[1].t # "BulkString"
    THEN CommandOther("Invalid argument. Key must be a bulk string")
    ELSE IF args[2].t # "BulkString"
    THEN CommandOther("Invalid argument. Value must be a bulk string")
    ELSE LET o == set_options(SubSeq(args, 3, Len(args)), 1, None, utc_now)
         IN  IF ~o.ok THEN CommandOther("Invalid option")
             ELSE CommandOk(Set(args[1].s, args[2].s, o.expiry))

\* LPush::with_args and RPush::with_args
PushWithArgs(name, args) ==
    IF Len(args) < 2 THEN CommandOther("Wrong number of arguments")
    ELSE IF args[1].t # "BulkString"
    THEN CommandOther("Invalid argument. Key must be a bulk string")
    ELSE IF args[2].t # "BulkString"
    THEN CommandOther("Invalid argument. Value must be a bulk string")
    ELSE CommandOk(IF name = "lpush" THEN LPush(args[1].s, args[2].s)
                   ELSE RPush(args[1].s, args[2].s))

\* Command::from_resp_command_frame for the frames a master fans out
from_resp_command_frame(frame, utc_now) ==
    IF frame = <<>> THEN [ok |-> FALSE, cmd |-> None, err |-> Panic]
    ELSE IF frame[1].t # "BulkString" THEN CommandOther("InvalidFormat")
    ELSE LET cmd_name == to_lowercase(frame[1].s)
             args == Tail(frame)
         IN  IF cmd_name = "set" THEN with_args(args, utc_now)
             ELSE IF cmd_name \in {"lpush", "rpush"} THEN PushWithArgs(cmd_name, args)
             ELSE CommandOther("UnknownCommand")

\* the deadlines a Set can carry: every instant OffsetDateTime can hold
FanoutDeadlines == MinDate..MaxDate
\* the commands handed to replication_cmd
FanoutCmds ==
    {Set(k, v, e) : k \in Names, v \in Vals,
                    e \in {None} \cup {Some(d) : d \in FanoutDeadlines}}
    \cup {Get(k) : k \in Names}
    \cup {Del(keys) : keys \in DelArgs}
    \cup {LPush(k, v) : k \in Names, v \in Vals}
    \cup {RPush(k, v) : k \in Names, v \in Vals}
    \cup {LRange(k) : k \in Names}
    \cup {Variant(n) : n \in {"PING", "INFO", "MULTI", "EXEC", "DISCARD", "PSYNC"}}

FanoutNew == [pc |-> "new", cmd |-> Get("k1"), out |-> None,
              replica |-> CommandOther(""), at |-> 0]
FanoutOpen(cmd) == [FanoutNew EXCEPT !.cmd = cmd]

FanoutRest ==
    UNCHANGED <<data, events, receivers, expiries, permit, sweeper, now, last, written,
                conns, out, sockets, replication, wire, codec, slave, acceptor, locks>>

\* the master asks for the command to fan out
ReplicationCmd ==
    /\ fanout.pc = "new"
    /\ fanout' = [fanout EXCEPT !.pc = "built", !.out = replication_cmd(fanout.cmd)]
    /\ FanoutRest

\* the replica, its clock at utc_now, parses the items of the frame it received
ReplicaParse(utc_now) ==
    /\ fanout.pc = "built"
    /\ fanout.out # None
    /\ fanout' = [fanout EXCEPT !.pc = "parsed", !.at = utc_now,
                                !.replica = from_resp_command_frame(fanout.out[1].a, utc_now)]
    /\ FanoutRest

(***************************************************************************)
(* The locks of the server and the tasks that take them: the RwLock of     *)
(* DB.data (storage/db.rs), the Mutex of KeyEvictor.expiries              *)
(* (storage/ttl.rs) and the tokio Mutex of ReplicaPeers.peers              *)
(* (replication/peer.rs).  A task that asks for a lock waits in a want_    *)
(* position until the step that grants it.  Handlers c1 and c2 execute     *)
(* GET, SET and DEL, handler c3 handles a PSYNC; the names of the entries  *)
(* and the values do not matter here: muts, chan and applied list the      *)
(* calls in the order they changed the keyspace, were published and were   *)
(* applied to the index.                                                   *)
(***************************************************************************)
\* store calls one handler makes
MaxOps == 1

LockHandlers == {"c1", "c2"}
Joiner == "c3"
LockTasks == LockHandlers \cup {Joiner, "listener", "sweeper", "writer"}
LockOps == {"get", "set", "del"}

LocksNew ==
    [pc |-> [t \in LockTasks |-> IF t = "writer" THEN "unborn" ELSE "idle"],
     data_w |-> "", data_r |-> {}, index |-> "", peers |-> "",
     ops |-> [c \in LockHandlers |-> 0], op |-> [c \in LockHandlers |-> "get"],
     muts |-> <<>>, chan |-> <<>>, evt |-> <<>>, applied |-> <<>>, indexed |-> 0,
     permit |-> FALSE, registry |-> <<>>, pushes |-> 0, removals |-> 0,
     attempted |-> [c \in LockHandlers |-> FALSE]]

LockRest ==
    UNCHANGED <<data, events, receivers, expiries, permit, sweeper, now, last, written,
                conns, out, sockets, replication, wire, codec, slave, acceptor, fanout>>

\* the call a handler is making, as the keyspace and the channel record it
LockCall(c) == [by |-> c, n |-> locks.ops[c], op |-> locks.op[c]]

\* handler.rs 116: the handler of c takes a frame and enters Command::execute,
\* which asks for data.read() (get) or data.write() (set, bulk_del)
Request(c, op) ==
    /\ locks.pc[c] = "idle"
    /\ locks.ops[c] < MaxOps
    /\ locks' = [locks EXCEPT !.pc[c] = IF op = "get" THEN "want_read" ELSE "want_write",
                              !.op[c] = op,
                              !.ops[c] = @ + 1]
    /\ LockRest

\* db.rs 82: data.read() is granted while no writer holds the lock
ReadLock(c) ==
    /\ locks.pc[c] = "want_read"
    /\ locks.data_w = ""
    /\ locks' = [locks EXCEPT !.pc[c] = "reading", !.data_r = @ \cup {c}]
    /\ LockRest

\* db.rs 87-97: get returns and drops the guard
ReadUnlock(c) ==
    /\ locks.pc[c] = "reading"
    /\ locks' = [locks EXCEPT !.pc[c] = "idle", !.data_r = @ \ {c}]
    /\ LockRest

\* db.rs 119, 316: data.write() is granted while nobody holds the lock
WriteLock(c) ==
    /\ locks.pc[c] = "want_write"
    /\ locks.data_w = ""
    /\ locks.data_r = {}
    /\ locks' = [locks EXCEPT !.pc[c] = "writing", !.data_w = c]
    /\ LockRest

\* db.rs 134, 322-333: the call changes the keyspace
Mutate(c) ==
    /\ locks.pc[c] = "writing"
    /\ locks' = [locks EXCEPT !.pc[c] = "mutated", !.muts = Append(@, LockCall(c))]
    /\ LockRest

\* a set that would give up the write lock before it publishes
PublishMutUnlocksFirst(c) ==
    \/ /\ locks.pc[c] = "mutated"
       /\ locks.data_w = c
       /\ locks' = [locks EXCEPT !.data_w = ""]
       /\ LockRest
    \/ /\ locks.pc[c] = "mutated"
       /\ locks.data_w # c
       /\ locks' = [locks EXCEPT !.chan = Append(@, LockCall(c)),
                                 !.pc[c] = IF locks.op[c] = "set" THEN "want_peers"
                                           ELSE "idle"]
       /\ LockRest

\* db.rs 136-146, 335-343: the call sends its event, returns and drops the
\* write guard; handler.rs 117-118: a SET goes on to write_to_replicas,
\* which asks for the lock of the registry (peer.rs 52)
Publish(c) ==
    /\ locks.pc[c] = "mutated"
    /\ locks' = [locks EXCEPT !.chan = Append(@, LockCall(c)),
                              !.data_w = "",
                              !.pc[c] = IF locks.op[c] = "set" THEN "want_peers" ELSE "idle"]
    /\ LockRest

\* peer.rs 52: peers.lock().await of replicate
PeersLock(c) ==
    /\ locks.pc[c] = "want_peers"
    /\ locks.peers = ""
    /\ locks' = [locks EXCEPT !.pc[c] = "replicating", !.peers = c]
    /\ LockRest

\* peer.rs 54-61: replicate returns without sending when the registry is
\* empty, else sends; the guard is dropped
PeersUnlock(c) ==
    /\ locks.pc[c] = "replicating"
    /\ locks' = [locks EXCEPT !.pc[c] = "idle", !.peers = "",
                              !.attempted[c] = locks.registry # <<>>]
    /\ LockRest

\* handler.rs 96-106 and peer.rs 37-39: the handler of a PSYNC enters
\* add_peer and asks for the lock of the registry
PsyncAddPeer ==
    /\ locks.pc[Joiner] = "idle"
    /\ locks' = [locks EXCEPT !.pc[Joiner] = "want_add"]
    /\ LockRest

\* peer.rs 39: peers.lock().await of add_peer
AddLock ==
    /\ locks.pc[Joiner] = "want_add"
    /\ locks.peers = ""
    /\ locks' = [locks EXCEPT !.pc[Joiner] = "adding", !.peers = Joiner]
    /\ LockRest

\* peer.rs 41, 99: init_replication spawns the writer task of the peer
Spawn ==
    /\ locks.pc[Joiner] = "adding"
    /\ locks' = [locks EXCEPT !.pc[Joiner] = "spawned", !.pc["writer"] = "running"]
    /\ LockRest

\* an add_peer that would give up the lock before it pushes the peer
PushMutUnlocksFirst ==
    \/ /\ locks.pc[Joiner] = "spawned"
       /\ locks.peers = Joiner
       /\ locks' = [locks EXCEPT !.peers = ""]
       /\ LockRest
    \/ /\ locks.pc[Joiner] = "spawned"
       /\ locks.peers # Joiner
       /\ locks' = [locks EXCEPT !.pc[Joiner] = "done",
                                 !.registry = Append(@, "writer"),
                                 !.pushes = @ + 1]
       /\ LockRest

\* peer.rs 42-45: the peer is pushed, add_peer returns and drops the guard
Push ==
    /\ locks.pc[Joiner] = "spawned"
    /\ locks' = [locks EXCEPT !.pc[Joiner] = "done", !.peers = "",
                              !.registry = Append(@, "writer"),
                              !.pushes = @ + 1]
    /\ LockRest

\* peer.rs 103-111: recv or write returns an error, the loop ends and the
\* writer task asks for the lock of the registry
WriterEnds ==
    /\ locks.pc["writer"] = "running"
    /\ locks' = [locks EXCEPT !.pc["writer"] = "want_remove"]
    /\ LockRest

\* peer.rs 111: peer_list.lock().await
RemoveLock ==
    /\ locks.pc["writer"] = "want_remove"
    /\ locks.peers = ""
    /\ locks' = [locks EXCEPT !.pc["writer"] = "removing", !.peers = "writer"]
    /\ LockRest

\* peer.rs 112-115: the peer is removed if it is found; the task ends
Remove ==
    /\ locks.pc["writer"] = "removing"
    /\ locks' = [locks EXCEPT !.pc["writer"] = "done", !.peers = "",
                              !.registry = SelectSeq(@, LAMBDA x : x # "writer"),
                              !.removals = IF \E i \in DOMAIN locks.registry :
                                                 locks.registry[i] = "writer"
                                            THEN @ + 1 ELSE @]
    /\ LockRest

\* ttl.rs 54-57, 150: the listener receives an event and asks for the mutex
\* of the index
ListenerTakes ==
    /\ locks.pc["listener"] = "idle"
    /\ locks.chan # <<>>
    /\ locks' = [locks EXCEPT !.pc["listener"] = "want_index",
                              !.evt = Some(Head(locks.chan)),
                              !.chan = Tail(@)]
    /\ LockRest

\* ttl.rs 150, 177: expiries.lock() of the listener
ListenerLock ==
    /\ locks.pc["listener"] = "want_index"
    /\ locks.index = ""
    /\ locks' = [locks EXCEPT !.pc["listener"] = "updating", !.index = "listener"]
    /\ LockRest

\* ttl.rs 57-69: the index is updated, the guard dropped and the sweeper
\* notified
ListenerUpdates ==
    /\ locks.pc["listener"] = "updating"
    /\ locks' = [locks EXCEPT !.pc["listener"] = "idle", !.index = "",
                              !.applied = Append(@, locks.evt[1]),
                              !.evt = None,
                              !.indexed = IF locks.evt[1].op = "set" THEN @ + 1
                                          ELSE IF @ > 0 THEN @ - 1 ELSE 0,
                              !.permit = TRUE]
    /\ LockRest

\* ttl.rs 81-82, 120: the sweeper enters evict_keys and asks for the mutex of
\* the index
SweeperStarts ==
    /\ locks.pc["sweeper"] = "idle"
    /\ locks' = [locks EXCEPT !.pc["sweeper"] = "want_index"]
    /\ LockRest

\* ttl.rs 120: expiries.lock() of the sweeper
SweeperLock ==
    /\ locks.pc["sweeper"] = "want_index"
    /\ locks.index = ""
    /\ locks' = [locks EXCEPT !.pc["sweeper"] = "pass", !.index = "sweeper"]
    /\ LockRest

\* a sweeper that would keep the mutex of the index while it sleeps
PassNextMutKeepsIndex(due) ==
    /\ locks.pc["sweeper"] = "pass"
    /\ locks' = IF locks.indexed > 0 /\ due
                THEN [locks EXCEPT !.pc["sweeper"] = "want_del"]
                ELSE [locks EXCEPT !.pc["sweeper"] = "parked"]
    /\ LockRest

\* ttl.rs 128-137: the first pair is due and the sweeper, holding the mutex
\* of the index, asks db.del for data.write(); or evict_keys returns, the
\* guard is dropped and the sweeper sleeps or waits
PassNext(due) ==
    /\ locks.pc["sweeper"] = "pass"
    /\ locks' = IF locks.indexed > 0 /\ due
                THEN [locks EXCEPT !.pc["sweeper"] = "want_del"]
                ELSE [locks EXCEPT !.pc["sweeper"] = "parked", !.index = ""]
    /\ LockRest

\* db.rs 296: data.write() of del
DelLock ==
    /\ locks.pc["sweeper"] = "want_del"
    /\ locks.data_w = ""
    /\ locks.data_r = {}
    /\ locks' = [locks EXCEPT !.pc["sweeper"] = "deleting", !.data_w = "sweeper"]
    /\ LockRest

\* db.rs 301 and ttl.rs 134: del returns and drops its guard, the pair is
\* removed from the index
DelUnlock ==
    /\ locks.pc["sweeper"] = "deleting"
    /\ locks' = [locks EXCEPT !.pc["sweeper"] = "pass", !.data_w = "",
                              !.indexed = @ - 1]
    /\ LockRest

\* ttl.rs 93-102: the sleep runs out (only with a pair left in the index),
\* or notified() takes the permit
Wake(notified) ==
    /\ locks.pc["sweeper"] = "parked"
    /\ IF notified THEN locks.permit ELSE locks.indexed > 0
    /\ locks' = [locks EXCEPT !.pc["sweeper"] = "idle",
                              !.permit = IF notified THEN FALSE ELSE @]
    /\ LockRest

(***************************************************************************)
(* The state after DB::new, KeyEvictor::new and ReplicaPeers::new.         *)
(***************************************************************************)
ServerNew ==
    /\ data = [n \in Names |-> None]
    /\ events = <<>>
    /\ receivers = 0
    /\ expiries = {}
    /\ permit = FALSE
    /\ sweeper = [pc |-> "new", utc_now |-> 0, wake |-> 0]
    /\ now = 0
    /\ last = Call("none", "", Ok(None))
    /\ written = [n \in Names |-> None]
    /\ conns = [c \in Conns |-> [multicommand |-> MultiCommandNew, pc |-> "idle",
                                 responses |-> <<>>, direct |-> None, early |-> FALSE]]
    /\ out = NullBulkString
    /\ sockets = [c \in Conns |-> [st |-> "open", sent |-> 0, got |-> <<>>]]
    /\ replication = [peers |-> <<>>, stream |-> <<>>,
                      rx |-> [c \in Conns |-> [st |-> "none", pos |-> 0]]]

Init ==
    /\ ServerNew
    /\ wire = RespNew(NullBulkString)
    /\ codec = CodecNew
    /\ slave = SlaveNew
    /\ acceptor = AcceptorNew
    /\ fanout = FanoutNew
    /\ locks = LocksNew

(***************************************************************************)
(* Spec: the store under client calls, with the evictor's listener         *)
(* draining the event channel.  A call that may publish is taken once the  *)
(* listener has received the event published before it.                    *)
(***************************************************************************)
StoreExpiries == {None} \cup {Some(d) : d \in StoreDeadlines}

Next ==
    \/ \E k \in Names : DoGet(k)
    \/ \E k \in Names, v \in Vals, e \in StoreExpiries : events = <<>> /\ DoSet(k, v, e)
    \/ \E k \in Names, v \in PushArgs : DoLPush(k, v)
    \/ \E k \in Names, v \in PushArgs : DoRPush(k, v)
    \/ \E k \in Names, i \in Indices, j \in Indices : DoLRange(k, i, j)
    \/ \E keys \in DelArgs : events = <<>> /\ DoBulkDel(keys)
    \/ EvictorRun
    \/ ListenerRecv

Spec == Init /\ [][Next]_vars

(***************************************************************************)
(* SpecTtl: string keys with deadlines, the evictor and the clock.         *)
(* SpecTtlFair adds the scheduling of the runtime: the clock advances and  *)
(* the listener task and the eviction loop are not starved.                *)
(***************************************************************************)
TtlDeadlines == {1, 2}
TtlExpiries == {None} \cup {Some(d) : d \in TtlDeadlines}
TtlNames == {"k1"}
TtlDelArgs == {<<"k1">>}

NextTtl ==
    \/ \E k \in TtlNames : DoGet(k)
    \/ \E k \in TtlNames, v \in Vals, e \in TtlExpiries : EventRoom /\ DoSet(k, v, e)
    \/ \E keys \in TtlDelArgs : EventRoom /\ DoBulkDel(keys)
    \/ EvictorRun
    \/ ListenerRecv
    \/ SweepBegin
    \/ SweepStep
    \/ SweepTimer
    \/ SweepNotified
    \/ Tick

SpecTtl == Init /\ [][NextTtl]_vars

SpecTtlFair ==
    /\ Init
    /\ [][NextTtl]_vars
    /\ WF_vars(Tick)
    /\ WF_vars(EvictorRun)
    /\ WF_vars(ListenerRecv)
    /\ WF_vars(SweepBegin)
    /\ WF_vars(SweepStep)
    /\ WF_vars(SweepTimer)
    /\ WF_vars(SweepNotified)

(***************************************************************************)
(* SpecPipe: two client connections sending SET, GET, DEL, EXEC and        *)
(* DISCARD frames, one of them also MULTI, over a store that may also hold *)
(* a list.                                                                 *)
(***************************************************************************)
\* the connections that send MULTI
PipeConns == {"c1"}
\* the connections that send frames in SpecPipe
PipeClients == {"c1", "c2"}
PipeCmds == {Set("k1", "a", None), Set("k1", "b", None), Get("k1"), Del(<<"k1">>)}

NextPipe ==
    \/ \E c \in PipeConns : Multi(c)
    \/ \E c \in PipeClients : Discard(c)
    \/ \E c \in PipeClients : CommandErr(c)
    \/ \E c \in PipeClients, cmd \in PipeCmds :
          Len(conns[c].multicommand.commands) < MaxQueue /\ Command(c, cmd)
    \/ \E c \in PipeClients : Replicate(c)
    \/ \E c \in PipeClients : Exec(c)
    \/ \E c \in PipeClients : ExecStep(c)
    \/ \E c \in PipeClients : ExecReplicate(c)
    \/ (data["k1"] = None /\ DoLPush("k1", <<"a">>))

SpecPipe == Init /\ [][NextPipe]_vars

(***************************************************************************)
(* SpecRepl: a master with two client connections and one connection that  *)
(* sends PSYNC and becomes a replica peer.  Values are sent to the peers   *)
(* while the channel holds fewer than MaxStream.                           *)
(***************************************************************************)
\* the connections that send commands
Clients == {"c1", "c2"}
\* the connections that send PSYNC
Replicas == {"c3"}
\* the commands each client sends
ReplCmds == [c \in Clients |-> IF c = "c1" THEN {Set("k1", "a", None), Get("k1")}
                                ELSE {Set("k1", "b", None)}]
StreamRoom == Len(replication.stream) < MaxStream

NextRepl ==
    \/ \E c \in PipeConns : Multi(c)
    \/ \E c \in PipeConns : Discard(c)
    \/ \E c \in PipeConns : CommandErr(c)
    \/ \E c \in Clients : \E cmd \in ReplCmds[c] :
          Len(conns[c].multicommand.commands) < MaxQueue /\ Command(c, cmd)
    \/ \E c \in Clients : StreamRoom /\ Replicate(c)
    \/ \E c \in PipeConns : Exec(c)
    \/ \E c \in PipeConns : ExecStep(c)
    \/ \E c \in PipeConns : StreamRoom /\ ExecReplicate(c)
    \/ \E c \in Clients \ PipeConns : ProtocolErr(c)
    \/ \E c \in Replicas, sent \in BOOLEAN : Psync(c, sent)
    \/ \E c \in Replicas : AddPeerSubscribe(c)
    \/ \E c \in Replicas : AddPeerPush(c)
    \/ \E p \in Replicas, ok \in BOOLEAN : PeerWrite(p, ok)
    \/ \E p \in Replicas : PeerRemove(p)
    \/ (data["k1"] = None /\ DoLPush("k1", <<"a">>))

SpecRepl == Init /\ [][NextRepl]_vars

(***************************************************************************)
(* SpecLag: a master with one replica peer and one client whose SETs fill  *)
(* the broadcast channel while the writer task of the peer is behind.      *)
(***************************************************************************)
LagRoom == Len(replication.stream) <= BroadcastCapacity

NextLag ==
    \/ Command("c1", Set("k1", "a", None))
    \/ (LagRoom /\ Replicate("c1"))
    \/ \E c \in Replicas, sent \in BOOLEAN : Psync(c, sent)
    \/ \E c \in Replicas : AddPeerSubscribe(c)
    \/ \E c \in Replicas : AddPeerPush(c)
    \/ \E p \in Replicas, ok \in BOOLEAN : PeerWrite(p, ok)
    \/ \E p \in Replicas : PeerLagged(p)
    \/ \E p \in Replicas : PeerRemove(p)

SpecLag == Init /\ [][NextLag]_vars

(***************************************************************************)
(* SpecResp: every value of RespValues encoded, and its bytes or a prefix  *)
(* of them handed to the parsers.                                          *)
(***************************************************************************)
InitResp ==
    /\ ServerNew
    /\ \E v \in RespValues : wire = RespNew(v)
    /\ codec = CodecNew
    /\ slave = SlaveNew
    /\ acceptor = AcceptorNew
    /\ fanout = FanoutNew
    /\ locks = LocksNew

NextResp ==
    \/ ToBytes
    \/ \E n \in 1..Len(wire.bytes) : Parse(n)
    \/ \E n \in 1..Len(wire.bytes) : ParseArrayLen(n)
    \/ \E n \in 1..Len(wire.bytes) : ParseBulkStringLen(n)

SpecResp == InitResp /\ [][NextResp]_vars

(***************************************************************************)
(* SpecCodec: one socket carrying a command frame and what follows it, in  *)
(* reads of every size.                                                    *)
(***************************************************************************)
InitCodec ==
    /\ ServerNew
    /\ wire = RespNew(NullBulkString)
    /\ \E f \in WireFrames, follow \in FollowBytes : codec = CodecOpen(f, follow)
    /\ slave = SlaveNew
    /\ acceptor = AcceptorNew
    /\ fanout = FanoutNew
    /\ locks = LocksNew

NextCodec ==
    \/ \E n \in 1..Len(codec.rest) : SocketRead(n)
    \/ Decode

SpecCodec == InitCodec /\ [][NextCodec]_vars

(***************************************************************************)
(* SpecShake: the handshake of a slave against every reply of the master.  *)
(***************************************************************************)
NextShake ==
    \/ \E sent \in BOOLEAN : HandshakePing(sent)
    \/ \E r \in ReadOutcomes, sent \in BOOLEAN : HandshakePong(r, sent)
    \/ \E r \in ReadOutcomes : HandshakeFullresync(r)

SpecShake == Init /\ [][NextShake]_vars

(***************************************************************************)
(* SpecAdmit: the acceptor loop and the handlers of the accepted sockets.  *)
(***************************************************************************)
NextAdmit ==
    \/ \E configured \in BOOLEAN : Accept(configured)
    \/ Acquire
    \/ \E written_all \in BOOLEAN : AcquireTimeout(written_all)
    \/ Forward
    \/ HandleCommands
    \/ \E s \in Sockets : HandlerReturn(s)

SpecAdmit == Init /\ [][NextAdmit]_vars

(***************************************************************************)
(* SpecCmd: a command is handed to replication_cmd and the result to the   *)
(* replica's parser.                                                       *)
(***************************************************************************)
InitCmd ==
    /\ ServerNew
    /\ wire = RespNew(NullBulkString)
    /\ codec = CodecNew
    /\ slave = SlaveNew
    /\ acceptor = AcceptorNew
    /\ \E cmd \in FanoutCmds : fanout = FanoutOpen(cmd)
    /\ locks = LocksNew

NextCmd ==
    \/ ReplicationCmd
    \/ \E utc_now \in 0..MaxTime : ReplicaParse(utc_now)

SpecCmd == InitCmd /\ [][NextCmd]_vars

(***************************************************************************)
(* SpecLock: the tasks of one server and its three locks.  SpecLockFair    *)
(* adds the scheduling of the runtime: a task that can take a step takes   *)
(* it, and a lock is granted to a task that waits for it once it stays     *)
(* free; the listener, which contends with a sweeper that may take the     *)
(* mutex of the index for ever, is granted it when it is free again and    *)
(* again.  A handler is not bound to send a further command, nor a replica *)
(* to connect, nor a writer task to fail, nor a sleep to end.              *)
(***************************************************************************)
NextLock ==
    \/ \E c \in LockHandlers, op \in LockOps : Request(c, op)
    \/ \E c \in LockHandlers : ReadLock(c)
    \/ \E c \in LockHandlers : ReadUnlock(c)
    \/ \E c \in LockHandlers : WriteLock(c)
    \/ \E c \in LockHandlers : Mutate(c)
    \/ \E c \in LockHandlers : Publish(c)
    \/ \E c \in LockHandlers : PeersLock(c)
    \/ \E c \in LockHandlers : PeersUnlock(c)
    \/ PsyncAddPeer
    \/ AddLock
    \/ Spawn
    \/ Push
    \/ WriterEnds
    \/ RemoveLock
    \/ Remove
    \/ ListenerTakes
    \/ ListenerLock
    \/ ListenerUpdates
    \/ SweeperStarts
    \/ SweeperLock
    \/ \E due \in BOOLEAN : PassNext(due)
    \/ DelLock
    \/ DelUnlock
    \/ \E notified \in BOOLEAN : Wake(notified)

SpecLock == Init /\ [][NextLock]_vars

SpecLockFair ==
    /\ Init
    /\ [][NextLock]_vars
    /\ \A c \in LockHandlers :
          /\ WF_vars(ReadLock(c)) /\ WF_vars(ReadUnlock(c))
          /\ WF_vars(WriteLock(c)) /\ WF_vars(Mutate(c)) /\ WF_vars(Publish(c))
          /\ WF_vars(PeersLock(c)) /\ WF_vars(PeersUnlock(c))
    /\ WF_vars(AddLock) /\ WF_vars(Spawn) /\ WF_vars(Push)
    /\ WF_vars(RemoveLock) /\ WF_vars(Remove)
    /\ WF_vars(ListenerTakes) /\ SF_vars(ListenerLock) /\ WF_vars(ListenerUpdates)
    /\ WF_vars(SweeperStarts) /\ WF_vars(SweeperLock)
    /\ WF_vars(\E due \in BOOLEAN : PassNext(due))
    /\ WF_vars(DelLock) /\ WF_vars(DelUnlock)
    /\ WF_vars(Wake(TRUE))

(***************************************************************************)
(* Claims about the store, stated for Spec.                                *)
(***************************************************************************)
OldList(k) == IF IsList(data, k) THEN ListOf(data, k) ELSE <<>>

\* C1: a get(k) that follows a successful set(k, String(v), no deadline),
\* with no change of k's entry in between, returns v.
C1_GetReturnsLastSet ==
    [][\A k \in Names :
          (/\ last'.op = "get"
           /\ written[k] # None
           /\ written[k][1].ok
           /\ written[k][1].expiry = None
           /\ DoGet(k))
              => last'.res = Ok(Some(written[k][1].v))]_vars

\* a get answered with the value of the SET before it, which replaced another string
C1_Witness ==
    /\ last.op = "get"
    /\ written[last.k] # None
    /\ written[last.k][1].ok
    /\ written[last.k][1].expiry = None
    /\ last.res = Ok(Some(written[last.k][1].v))

\* C2: lpush(k, [v1..vn]) on an absent key or a list leaves the list
\* [vn, ..., v1] followed by the previous contents, and returns its length.
C2_LPushPrependsReversed ==
    [][\A k \in Names, v \in PushArgs :
          (last'.op = "lpush" /\ DoLPush(k, v) /\ ~IsString(data, k))
              => /\ IsList(data', k)
                 /\ ListOf(data', k) = Reverse(v) \o OldList(k)
                 /\ last'.res = OkCount(Len(ListOf(data', k)))]_vars

\* C3: lrange(k, 0, -1) returns the whole list head to tail, the empty
\* sequence for an absent key, and rpush appends its values in argument order.
C3_LRangeWholeList ==
    [][\A k \in Names :
          /\ (last'.op = "lrange" /\ DoLRange(k, 0, -1) /\ ~IsString(data, k))
                => last'.res = Ok(OldList(k))
          /\ \A v \in PushArgs :
                (last'.op = "rpush" /\ DoRPush(k, v) /\ ~IsString(data, k))
                    => IsList(data', k) /\ ListOf(data', k) = OldList(k) \o v]_vars

\* C4: a call against an entry of the wrong kind returns WrongType, leaves
\* the keyspace as it was and publishes no event.
C4_TypeErrorsChangeNothing ==
    [][\A k \in Names \cap {last'.k} :
          /\ (last'.op = "get" /\ IsList(data, k) /\ DoGet(k))
                => last'.res = Err(WrongType) /\ data' = data /\ events' = events
          /\ (last'.op = "set" /\ IsList(data, k))
                => \A v \in Vals, e \in StoreExpiries :
                      DoSet(k, v, e)
                          => last'.res = Err(WrongType) /\ data' = data /\ events' = events
          /\ (last'.op = "lpush" /\ IsString(data, k))
                => \A v \in PushArgs :
                      DoLPush(k, v)
                          => last'.res = Err(WrongType) /\ data' = data /\ events' = events
          /\ (last'.op = "rpush" /\ IsString(data, k))
                => \A v \in PushArgs :
                      DoRPush(k, v)
                          => last'.res = Err(WrongType) /\ data' = data /\ events' = events
          /\ (last'.op = "lrange" /\ IsString(data, k))
                => \A i \in Indices, j \in Indices :
                      DoLRange(k, i, j)
                          => last'.res = Err(WrongType) /\ data' = data /\ events' = events]_vars

\* a set refused on a list while the event channel has a receiver
C4_Witness ==
    /\ last.op = "set"
    /\ last.res = Err(WrongType)
    /\ IsList(data, last.k)
    /\ receivers > 0

\* C5: bulk_del(names) returns the number of distinct names that were
\* present, and afterwards get of every listed name returns absent.
C5_BulkDelCount ==
    [][\A keys \in DelArgs :
          (last'.op = "bulk_del" /\ DoBulkDel(keys))
              => /\ last'.res = OkCount(Cardinality({n \in Range(keys) : data[n] # None}))
                 /\ \A n \in Range(keys) : get(DBstate', n) = Ok(None)]_vars

(***************************************************************************)
(* Claims about deadlines and eviction, stated for SpecTtl and             *)
(* SpecTtlFair).                                                           *)
(***************************************************************************)
\* the latest SET of n carried deadline d and n's entry is as that SET left it
SetWithDeadline(n, d) == written[n] # None /\ written[n][1].expiry = Some(d)

\* n is absent, or was SET again with another deadline or none
GoneOrSetAgain(n, d) == data[n] = None \/ (written[n] # None /\ written[n][1].expiry # Some(d))

\* C6: under fair scheduling of the listener and the sweeper, a key SET with
\* deadline d and not SET again is eventually absent from the keyspace.
C6_EventualEviction ==
    \A n \in TtlNames, d \in TtlDeadlines : SetWithDeadline(n, d) ~> GoneOrSetAgain(n, d)

\* The same for the SETs that replied Ok, whose event reached the channel.
EvictionAfterAcceptedSet ==
    \A n \in TtlNames, d \in TtlDeadlines :
        (SetWithDeadline(n, d) /\ written[n][1].ok) ~> GoneOrSetAgain(n, d)

\* C7: the evictor never removes a key before the deadline of the most
\* recent SET of its name.
C7_NoEarlyEviction ==
    [][\A n \in TtlNames, d \in TtlDeadlines :
          (SetWithDeadline(n, d) /\ now < d /\ SweepStep) => data'[n] # None]_vars

\* C8: no get issued later than the deadline stored with a key returns the
\* key's value.
C8_InvisibleAfterExpiry ==
    [][\A k \in TtlNames :
          (/\ last'.op = "get"
           /\ data[k] # None
           /\ data[k][1].key.expiry # None
           /\ now > data[k][1].key.expiry[1]
           /\ DoGet(k)) => last'.res = Ok(None)]_vars

(***************************************************************************)
(* Claims about MULTI / EXEC, stated for SpecPipe.                         *)
(***************************************************************************)
\* the responses of connection c's batch after a step
ResponsesAfter(c) == IF conns'[c].pc = "idle" THEN out'.a ELSE conns'[c].responses

\* C9: the EXEC of k queued commands replies an Array of exactly k elements,
\* the i-th being the result of the i-th queued command whether or not an
\* earlier one failed, and leaves the queue empty and the pipeline inactive.
C9_ExecReplies ==
    [][\A c \in Conns :
          LET h == conns[c]
              mc == h.multicommand
          IN  /\ (h.pc = "exec" /\ conns'[c] # h)
                    => ResponsesAfter(c) =
                          Append(h.responses,
                                 execute(DBstate, mc.commands[Len(h.responses) + 1]).res)
              /\ (h.pc = "exec_repl" /\ conns'[c] # h) => ResponsesAfter(c) = h.responses
              /\ (h.pc \in {"exec", "exec_repl"} /\ conns'[c].pc # "idle")
                    => conns'[c].multicommand = mc
              /\ (h.pc \in {"exec", "exec_repl"} /\ conns'[c].pc = "idle")
                    => /\ out'.t = "Array"
                       /\ Len(out'.a) = Len(mc.commands)
                       /\ conns'[c].multicommand = MultiCommandNew
              /\ (h.pc = "idle" /\ mc.is_active /\ mc.commands = <<>> /\ Exec(c))
                    => out' = Array(<<>>) /\ conns'[c].multicommand = MultiCommandNew]_vars

\* an EXEC of a full queue answered: the first command failed, the last did not
C9_Witness ==
    /\ out.t = "Array"
    /\ Len(out.a) = MaxQueue
    /\ out.a[1].t = "SimpleError"
    /\ out.a[MaxQueue].t # "SimpleError"
    /\ \A c \in Conns : conns[c].multicommand = MultiCommandNew /\ conns[c].pc = "idle"

\* connection c is between two commands of its batch
MidBatch(c) ==
    /\ conns[c].pc \in {"exec", "exec_repl"}
    /\ Len(conns[c].responses) > 0
    /\ Len(conns[c].responses) < Len(conns[c].multicommand.commands)

\* C10: while a connection is between two commands of its EXEC batch, no
\* command of another connection is applied to the store.
C10_ExecAtomic ==
    [][\A c \in Conns : \A o \in Conns \ {c} :
          MidBatch(c) => \A cmd \in PipeCmds : ~(Command(o, cmd) /\ data' # data)]_vars

(***************************************************************************)
(* Claims about the connection handler and replication, stated for         *)
(* SpecPipe and SpecRepl.                                                  *)
(***************************************************************************)
\* a step leaves the store and the replication state as they were
StoreSame == data' = data /\ events' = events /\ replication' = replication

\* C11: while the pipeline of a connection is active, a SET or GET frame is
\* appended to the queue and answered QUEUED, and no frame but EXEC changes
\* the store or the replication stream; DISCARD and a command error leave an
\* empty, inactive pipeline, so that no command of the queue is executed.
C11_QueuedUntilExec ==
    [][\A c \in PipeConns :
          LET h == conns[c]
              mc == h.multicommand
          IN  (h.pc = "idle" /\ mc.is_active) =>
                 /\ \A cmd \in ReplCmds[c] :
                       Command(c, cmd)
                           => /\ conns'[c].multicommand =
                                    [commands |-> Append(mc.commands, cmd), is_active |-> TRUE]
                              /\ conns'[c].pc = "idle"
                              /\ out' = SimpleString("QUEUED")
                              /\ sockets'[c].sent = 1
                              /\ StoreSame
                 /\ (Discard(c) \/ CommandErr(c))
                       => /\ conns'[c].multicommand = MultiCommandNew
                          /\ conns'[c].pc = "idle"
                          /\ StoreSame
                 /\ (conns'[c] # h /\ conns'[c].pc # "exec") => StoreSame]_vars

\* a SET is queued behind another command while a peer is registered and the
\* channel has carried a value
C11_Witness ==
    \E c \in PipeConns :
        /\ conns[c].pc = "idle"
        /\ Len(conns[c].multicommand.commands) = MaxQueue
        /\ conns[c].multicommand.commands[MaxQueue].name = "SET"
        /\ out = SimpleString("QUEUED")
        /\ replication.peers # <<>>
        /\ replication.stream # <<>>

\* C12: a MULTI on an active pipeline is answered SimpleError "MULTI calls
\* cannot be nested" and leaves the pipeline active with its queue; an EXEC or
\* a DISCARD on an inactive pipeline is answered "EXEC without MULTI" or
\* "DISCARD without MULTI" and leaves the pipeline inactive with an empty
\* queue; none of them changes the store.
C12_RejectedControl ==
    [][\A c \in PipeClients :
          LET h == conns[c]
              mc == h.multicommand
          IN  h.pc = "idle" =>
                 /\ (mc.is_active /\ Multi(c))
                       => /\ out' = SimpleError("MULTI calls cannot be nested")
                          /\ conns'[c] = h
                          /\ StoreSame
                 /\ (~mc.is_active /\ Exec(c))
                       => /\ out' = SimpleError("EXEC without MULTI")
                          /\ conns'[c].multicommand = MultiCommandNew
                          /\ conns'[c].pc = "idle"
                          /\ StoreSame
                 /\ (~mc.is_active /\ Discard(c))
                       => /\ out' = SimpleError("DISCARD without MULTI")
                          /\ conns'[c].multicommand = MultiCommandNew
                          /\ conns'[c].pc = "idle"
                          /\ StoreSame]_vars

\* a nested MULTI refused on a pipeline that holds a full queue
C12_Witness ==
    \E c \in PipeConns :
        /\ out = SimpleError("MULTI calls cannot be nested")
        /\ conns[c].multicommand.is_active
        /\ Len(conns[c].multicommand.commands) = MaxQueue
        /\ conns[c].pc = "idle"

\* C13: a frame that is no valid command is answered with exactly one
\* SimpleError, the connection stays open and its handler goes on, and an
\* active pipeline is discarded: inactive, with an empty queue.
C13_CommandError ==
    [][\A c \in PipeClients :
          (conns[c].pc = "idle" /\ CommandErr(c))
              => /\ out'.t = "SimpleError"
                 /\ sockets'[c].sent = 1
                 /\ sockets'[c].st = "open"
                 /\ conns'[c].pc = "idle"
                 /\ conns'[c].multicommand = MultiCommandNew
                 /\ StoreSame]_vars

\* a command error answered on an open connection whose pipeline is idle
C13_Witness ==
    \E c \in PipeConns :
        /\ out = SimpleError("Invalid command format")
        /\ sockets[c].sent = 1
        /\ sockets[c].st = "open"
        /\ conns[c].pc = "idle"
        /\ conns[c].multicommand = MultiCommandNew
        /\ written["k1"] # None

\* C14: when the codec reports a malformed frame, the handler writes a
\* SimpleError to the connection and then closes it.
C14_ProtocolErrorReply ==
    [][\A c \in Clients :
          (conns[c].pc = "idle" /\ sockets[c].st = "open" /\ ProtocolErr(c))
              => /\ sockets'[c].sent = 1
                 /\ out'.t = "SimpleError"
                 /\ sockets'[c].st = "closed"]_vars

\* the handler of c takes a frame
TakesFrame(c) ==
    \/ Multi(c)
    \/ Discard(c)
    \/ CommandErr(c)
    \/ Exec(c)
    \/ \E cmd \in PipeCmds : Command(c, cmd)

\* the handler of c goes on with the frame it took
GoesOn(c) == Replicate(c) \/ ExecStep(c) \/ ExecReplicate(c)

\* C15: the handler of a connection takes its next frame only when the frame
\* before it has been answered, and every command frame other than PSYNC is
\* answered with exactly one reply, written when its handling ends; so the
\* replies come in the order of the frames.
C15_OneReplyInOrder ==
    [][\A c \in PipeClients :
          LET h == conns[c]
          IN  /\ (h.pc = "idle" /\ TakesFrame(c))
                    => IF conns'[c].pc = "idle" THEN sockets'[c].sent = 1
                       ELSE sockets'[c].sent = 0 /\ out' = out
              /\ (h.pc # "idle" /\ conns'[c] # h)
                    => /\ GoesOn(c)
                       /\ ~TakesFrame(c)
                       /\ IF conns'[c].pc = "idle" THEN sockets'[c].sent = 1
                          ELSE sockets'[c].sent = 0 /\ out' = out]_vars

\* both connections have their last frame answered, one of them an EXEC of a
\* full queue
C15_Witness ==
    /\ \A c \in PipeClients : conns[c].pc = "idle" /\ sockets[c].sent = 1
    /\ out.t = "Array"
    /\ Len(out.a) = MaxQueue

\* the write that the handler of c has executed and not yet handed to
\* write_to_replicas
PendingWrite(c) ==
    IF conns[c].pc = "repl" THEN conns[c].direct[1]
    ELSE conns[c].multicommand.commands[Len(conns[c].responses)]

\* C16: a write executed by a handler is sent on the replication channel at
\* most once, and no value of the channel is written twice to the socket of
\* a peer, however client handlers, add_peer and the writer tasks interleave.
C16_AtMostOnce ==
    [][/\ replication'.stream # replication.stream
             => \E c \in Clients :
                   /\ conns[c].pc \in {"repl", "exec_repl"}
                   /\ conns'[c].pc \notin {"repl", "exec_repl"}
                   /\ replication'.stream =
                         Append(replication.stream,
                                Sent(c, build_command(PendingWrite(c))))
       /\ \A p \in Conns :
             /\ \A i \in DOMAIN sockets'[p].got : \A j \in DOMAIN sockets'[p].got :
                   i # j => sockets'[p].got[i] # sockets'[p].got[j]
             /\ \A i \in DOMAIN sockets'[p].got :
                   sockets'[p].got[i] \in DOMAIN replication'.stream]_vars

\* a peer has been written MaxStream values, sent by different connections
C16_Witness ==
    \E p \in Replicas :
        /\ Len(sockets[p].got) = MaxStream
        /\ \E i \in DOMAIN replication.stream : \E j \in DOMAIN replication.stream :
              replication.stream[i].by # replication.stream[j].by

\* C17: the handler of a connection hands each write to write_to_replicas
\* before it executes its next command, directly or inside one EXEC batch,
\* and a peer is written the values of one connection in the order in which
\* they were sent.
C17_PerConnectionFifo ==
    [][/\ \A c \in Clients :
             (conns[c].pc \in {"repl", "exec_repl"} /\ conns'[c] # conns[c])
                 => /\ data' = data
                    /\ (Replicate(c) \/ ExecReplicate(c))
       /\ \A p \in Conns :
             LET got == sockets'[p].got
             IN  \A i \in DOMAIN got : \A j \in DOMAIN got :
                    (/\ i < j
                     /\ replication'.stream[got[i]].by = replication'.stream[got[j]].by)
                        => got[i] < got[j]]_vars

\* a peer has been written MaxStream values of one connection, which has
\* just been answered an EXEC of a full queue
C17_Witness ==
    \E p \in Replicas : \E c \in PipeConns :
        /\ Len(sockets[p].got) = MaxStream
        /\ \A i \in DOMAIN replication.stream : replication.stream[i].by = c
        /\ out.t = "Array"
        /\ Len(out.a) = MaxQueue
        /\ conns[c].pc = "idle"

\* C18: a write is sent on the replication channel only when its execution
\* succeeded: a SET answered with an error is not sent, whether it was run
\* directly or by EXEC.
C18_OnlySuccessfulWrites ==
    [][\A c \in Clients :
          LET h == conns[c]
          IN  (/\ h.pc \in {"repl", "exec_repl"}
               /\ h.responses[Len(h.responses)].t = "SimpleError"
               /\ conns'[c] # h)
                  => replication'.stream = replication.stream]_vars

\* C19: a write executed while the registry of peers is empty is not sent on
\* the replication channel, and a peer is written only values sent after
\* add_peer subscribed its receiver.
C19_OnlyWritesAfterHandshake ==
    [][/\ \A c \in Clients :
             (conns[c].early /\ conns'[c] # conns[c])
                 => replication'.stream = replication.stream
       /\ \A p \in Replicas :
             LET rx == replication.rx[p]
             IN  /\ (rx.st = "none" /\ replication'.rx[p].st # "none")
                       => replication'.rx[p].pos > Len(replication.stream)
                 /\ sockets'[p].got # sockets[p].got
                       => /\ sockets'[p].got = Append(sockets[p].got, rx.pos)
                          /\ replication'.rx[p].pos = rx.pos + 1]_vars

\* The part of C19 that is about the subscription alone.
WrittenAfterSubscription ==
    [][\A p \in Replicas :
          LET rx == replication.rx[p]
          IN  /\ (rx.st = "none" /\ replication'.rx[p].st # "none")
                    => replication'.rx[p].pos > Len(replication.stream)
              /\ sockets'[p].got # sockets[p].got
                    => /\ sockets'[p].got = Append(sockets[p].got, rx.pos)
                       /\ replication'.rx[p].pos = rx.pos + 1]_vars

\* C20: the handler of a PSYNC writes and flushes the FULLRESYNC reply before
\* the socket is subscribed and added to the registry, so no replicated value
\* precedes the reply on that socket; once the socket is handed to add_peer
\* the handler takes no further frame; when the reply cannot be sent the
\* socket is not registered.
C20_PsyncUpgradeOrder ==
    [][\A c \in Replicas :
          LET h == conns[c]
              registered == \E i \in DOMAIN replication'.peers : replication'.peers[i] = c
          IN  /\ (h.pc = "idle" /\ Psync(c, TRUE))
                    => /\ out' = SimpleString("FULLRESYNC id -1")
                       /\ sockets'[c].sent = 1
                       /\ sockets'[c].got = <<>>
                       /\ replication' = replication
              /\ (h.pc = "idle" /\ Psync(c, FALSE))
                    => /\ sockets'[c].sent = 0
                       /\ sockets'[c].st = "closed"
                       /\ conns'[c].pc = "end"
                       /\ replication' = replication
              /\ replication'.rx[c].st # "none"
                    => sockets'[c].sent = 1 /\ conns'[c].pc \in {"add_peer", "end"}
              /\ (registered \/ sockets'[c].got # <<>>)
                    => sockets'[c].sent = 1 /\ conns'[c].pc = "end"
              /\ h.pc \in {"add_peer", "end"}
                    => conns'[c].pc \in {"add_peer", "end"} /\ sockets'[c].sent = sockets[c].sent
              /\ (h.pc = "end" /\ sockets[c].sent = 0)
                    => ~registered /\ replication'.rx[c].st = "none"]_vars

\* a registered peer whose socket carries the reply and then a replicated value
C20_Witness ==
    \E c \in Replicas :
        /\ replication.peers = <<c>>
        /\ sockets[c].sent = 1
        /\ sockets[c].got # <<>>
        /\ conns[c].pc = "end"


\* C23: RESP round trip: for every value V of RespValues (SimpleString,
\* SimpleError, BulkString, NullBulkString, Array, nested Arrays),
\* parse(to_bytes(V)) returns V with bytes consumed equal to the length of
\* to_bytes(V).
C23_RoundTrip ==
    (wire.op = "parse" /\ wire.buf = wire.bytes)
        => wire.res = Some(Parsed(wire.v, Len(wire.bytes)))

\* C24: to_bytes of a BulkString writes in its header the length of the text
\* in UTF-8 bytes, not its number of characters.
C24_HeaderIsByteLength ==
    (wire.op = "to_bytes" /\ wire.v.t = "BulkString")
        => read_till_crlf(from(wire.bytes, 1)) # None
           /\ read_till_crlf(from(wire.bytes, 1))[1].data = to_string(byte_len(wire.v.s))

\* a bulk string or an array of bulk strings, the frames parse accepts whole
Parseable(v) ==
    \/ v.t = "BulkString" /\ byte_len(v.s) = chars_count(v.s)
    \/ v.t = "Array" /\ \A i \in DOMAIN v.a :
                            v.a[i].t = "BulkString" /\ byte_len(v.a[i].s) = chars_count(v.a[i].s)

\* C25: a parser handed only a prefix of a frame reports that more bytes are
\* needed and never an error: parse returns neither a RespError nor a value
\* for a prefix that stops short of the frame's end (in particular when the
\* declared length of a bulk string runs past the end of the buffer), and the
\* length parsers return Ok(None) for a header whose CRLF has not arrived.
C25_PrefixIsIncomplete ==
    (Parseable(wire.v) /\ Len(wire.buf) < Len(wire.bytes))
        => /\ wire.op = "parse" => (~wire.res[1].ok /\ wire.res[1].err = "Incomplete")
           /\ (wire.op \in {"parse_array_len", "parse_bulk_string_len"}
                 /\ read_till_crlf(wire.buf) = None)
                 => wire.len = Some(LenNone)


\* the frames that the bytes following the first frame hold in full
FollowFrames == IF codec.follow = "*1\r\n$1\r\nh\r\n" THEN <<Array(<<BulkString("h")>>)>> ELSE <<>>

\* C26: the framed codec tolerates partial reads: for every command frame
\* (an Array of k BulkStrings) and every split of its bytes into socket
\* reads, the codec reports no error, the first frame it surfaces equals the
\* frame, at that moment exactly the frame's bytes are consumed (the bytes
\* that follow are still in the buffer or on the socket), and once all bytes
\* have been read and decoded the frame has been surfaced exactly once,
\* followed only by the frames the following bytes hold.
C26_PartialReads ==
    [][/\ codec'.pc # "err"
       /\ (Len(codec.frames) = 0 /\ Len(codec'.frames) = 1)
             => /\ codec'.frames[1] = codec.frame
                /\ codec'.buffer \o codec'.rest = codec.follow
                /\ codec'.cmd = None
       /\ (codec'.pc = "open" /\ codec'.rest = "" /\ ~codec'.readable)
             => codec'.frames = <<codec.frame>> \o FollowFrames]_vars

\* a frame of two bulk strings has been surfaced, and the decoder, handed the
\* header of the next frame and a part of its body, waits for the next read
C26_Witness ==
    /\ Len(codec.frame.a) = 2
    /\ codec.frames = <<codec.frame>>
    /\ codec.pc = "open"
    /\ codec.cmd # None
    /\ codec.buffer # ""
    /\ codec.rest # ""
    /\ ~codec.readable


\* the read returned a SimpleString whose text begins with prefix
RepliedWith(r, prefix) ==
    /\ r.k = "some"
    /\ starts_with(r.b, "+" \o prefix)
    /\ read_till_crlf(r.b) # None

\* C21: the handshake of a slave succeeds only if the master's reply to PING
\* is the SimpleString PONG and its reply to PSYNC begins with FULLRESYNC;
\* PSYNC is sent only after PONG has been validated; any other reply, a
\* missing reply or a read error at either step makes perform_handshake
\* return an error.
C21_HandshakeValidates ==
    /\ Len(slave.sent) = 2 => slave.pong = ReadSome("+PONG\r\n")
    /\ slave.result = "ok"
          => /\ slave.pong = ReadSome("+PONG\r\n")
             /\ slave.sent = <<to_bytes(PingBuildCommand), to_bytes(PsyncBuildCommand)>>
             /\ RepliedWith(slave.full, "FULLRESYNC")
    /\ (slave.pc = "done" /\ ~(slave.pong = ReadSome("+PONG\r\n")
                               /\ Len(slave.sent) = 2
                               /\ RepliedWith(slave.full, "FULLRESYNC")))
          => slave.result = "err"


\* the sockets that hold a permit
PermitHolders == {s \in Sockets : acceptor.socks[s].permit}

\* C22: admission bound: the accepted sockets holding a permit never number
\* more than maxclients; a socket is forwarded to the handler pool only
\* together with a permit; a socket whose wait for a permit timed out is
\* answered "max number of clients reached" (when the write succeeds),
\* closed, and never forwarded.
C22_AdmissionBound ==
    /\ Cardinality(PermitHolders) <= MaxClients
    /\ Cardinality(PermitHolders) + acceptor.permits = MaxClients
    /\ \A i \in DOMAIN acceptor.chan : acceptor.socks[acceptor.chan[i]].permit
    /\ \A s \in Sockets :
          LET sk == acceptor.socks[s]
          IN  /\ sk.st \in {"queued", "handled"} => sk.permit /\ sk.forwarded
              /\ sk.forwarded => sk.st \in {"queued", "handled"} \/ (sk.st = "closed" /\ ~sk.permit)
              /\ sk.timedout
                    => /\ sk.st = "closed"
                       /\ ~sk.forwarded
                       /\ ~sk.permit
                       /\ sk.answer \in {"-max number of clients reached\r\n", ""}
                       /\ \A i \in DOMAIN acceptor.chan : acceptor.chan[i] # s

\* every permit is held by a forwarded socket while a later socket has timed
\* out and been answered
C22_Witness ==
    /\ Cardinality(PermitHolders) = MaxClients
    /\ \A s \in PermitHolders : acceptor.socks[s].forwarded
    /\ \E s \in Sockets :
          /\ acceptor.socks[s].timedout
          /\ acceptor.socks[s].answer = "-max number of clients reached\r\n"


\* the index normalization of lrange: a negative index counts from the end
\* and stops at 0, any other index stops at the last position
NormalIndex(L, i) == IF i < 0 THEN (IF L + i < 0 THEN 0 ELSE L + i) ELSE Min(L - 1, i)

\* the elements of l at the normalized positions start..stop, both included
InclusiveSlice(l, start, stop) ==
    IF stop < start \/ NormalIndex(Len(l), start) > NormalIndex(Len(l), stop) THEN <<>>
    ELSE SubSeq(l, NormalIndex(Len(l), start) + 1, NormalIndex(Len(l), stop) + 1)

Registered(repl, p) == \E i \in DOMAIN repl.peers : repl.peers[i] = p

\* C28: a peer enters the registry only after the FULLRESYNC reply has been
\* written to its socket, and leaves it when and only when a write to its
\* socket has failed; after the failed write the writer task writes nothing
\* more to the socket.
C28_RemovedOnlyOnWriteFailure ==
    [][\A p \in Replicas :
          /\ (~Registered(replication, p) /\ Registered(replication', p))
                => sockets[p].sent = 1
          /\ (Registered(replication, p) /\ ~Registered(replication', p))
                => replication.rx[p].st = "failed"
          /\ replication.rx[p].st = "failed"
                => /\ sockets'[p].got = sockets[p].got
                   /\ replication'.rx[p].st \in {"failed", "gone"}]_vars


\* the <<deadline, name>> of the names of keys, in order, that are in the
\* keyspace d under a Key with an expiry (a name is removed where it first
\* occurs)
RECURSIVE Carried(_, _)
Carried(d, keys) ==
    IF keys = <<>> THEN <<>>
    ELSE LET k == Head(keys)
         IN  (IF d[k] # None /\ d[k][1].key.expiry # None
              THEN <<(<<d[k][1].key.expiry[1], k>>)>> ELSE <<>>)
             \o Carried([d EXCEPT ![k] = None], Tail(keys))

\* C29: the events the store publishes: set publishes exactly one
\* SetKeyExpiry(deadline, name) when and only when a deadline is given; del
\* publishes nothing; bulk_del publishes exactly one BulkDelKeys when and only
\* when a removed key carried an expiry, listing exactly the removed keys that
\* carried one; get, lrange, lpush and rpush publish nothing.
C29_EventPublication ==
    [][/\ \A k \in Names \cap {last'.k} :
             /\ \A v \in Vals, e \in StoreExpiries :
                   (last'.op = "set" /\ ~IsList(data, k) /\ DoSet(k, v, e))
                       => events' = IF e = None THEN events
                                    ELSE Append(events, SetKeyExpiry(e[1], k))
             /\ (last'.op = "get" /\ DoGet(k)) => events' = events
             /\ (last'.op = "lrange" /\ \E i \in Indices, j \in Indices : DoLRange(k, i, j))
                   => events' = events
             /\ (last'.op = "lpush" /\ \E v \in PushArgs : DoLPush(k, v)) => events' = events
             /\ (last'.op = "rpush" /\ \E v \in PushArgs : DoRPush(k, v)) => events' = events
       /\ \A k \in Names : del(DBstate, k).db.events = events
       /\ \A keys \in DelArgs :
             (last'.op = "bulk_del" /\ DoBulkDel(keys))
                 => events' = IF Carried(data, keys) = <<>> THEN events
                              ELSE Append(events, BulkDelKeys(Carried(data, keys)))]_vars


\* C30: a pair (d, n) enters the TTL index only when, at that moment, the
\* keyspace holds a Key named n whose stored expiry is d, after any sequence
\* of sets (with or without deadline, repeated for the same name) and
\* deletions.
C30_IndexedPairsMatchKeys ==
    [][\A pair \in expiries' \ expiries :
          /\ data[pair[2]] # None
          /\ data[pair[2]][1].key.expiry = Some(pair[1])]_vars

(***************************************************************************)
(* Claims about the sweeper's pass, stated for SpecTtl.                    *)
(***************************************************************************)
\* a turn of evict_keys that deleted a key and removed its pair
PassRemoves == sweeper.pc = "evict" /\ expiries' # expiries

\* the return of evict_keys and the wait chosen from its result
PassReturns == sweeper.pc = "evict" /\ sweeper'.pc # "evict"

\* the pass walks upward from the first pair, deletes and removes the pairs
\* that are due, returns at the first pair that is not, and reports it
PassWalksIndex ==
    /\ PassRemoves =>
          /\ expiries \ expiries' = {first(expiries)}
          /\ expiries' \subseteq expiries
          /\ first(expiries)[1] <= sweeper.utc_now
          /\ data' = del(DBstate, first(expiries)[2]).db.data
          /\ sweeper' = sweeper
    /\ PassReturns =>
          /\ expiries' = expiries
          /\ data' = data
          /\ \A q \in expiries : q[1] > sweeper.utc_now
          /\ expiries = {} <=> sweeper'.pc = "wait"
          /\ expiries # {} =>
                /\ sweeper'.pc = "sleep"
                /\ sweeper'.wake = WakeAt(first(expiries)[1], sweeper.utc_now)
                /\ \A q \in expiries : first(expiries)[1] <= q[1]

\* the pairs that are not due keep their keys
PassSparesLaterPairs ==
    PassRemoves => \A q \in expiries : q[1] > sweeper.utc_now => data'[q[2]] = data[q[2]]

\* C31: a pass of evict_keys(now) walks the index in ascending order, deletes
\* the key of and removes every pair with d <= now and stops at the first
\* pair with d > now; on return no pair with d <= now is left, no pair with
\* d > now was removed or had its key deleted, and the result is the
\* smallest remaining deadline, or None for an empty index.
C31_EvictKeysPass == [][PassWalksIndex /\ PassSparesLaterPairs]_vars

\* the sweeper is about to delete n for a pair that is due, while the latest
\* SET of n, still in place, has a later deadline or none
StalePairDue(n) ==
    /\ sweeper.pc = "evict"
    /\ expiries # {}
    /\ first(expiries)[2] = n
    /\ first(expiries)[1] <= sweeper.utc_now
    /\ data[n] # None
    /\ written[n] # None
    /\ (written[n][1].expiry = None \/ written[n][1].expiry[1] > now)

\* C32: a SET of a key leaves the pairs already in the index, also the
\* older pair of the same key, in place, both when it is called and when
\* the listener applies its event; and a sweeper that finds such an older
\* pair due deletes the key although the deadline of its latest SET has not
\* passed or it has none.
C32_StaleEntries ==
    [][/\ \A k \in TtlNames, v \in Vals, e \in TtlExpiries :
             (last'.op = "set" /\ DoSet(k, v, e)) => expiries' = expiries
       /\ (events # <<>> /\ Head(events).type = "SetKeyExpiry" /\ ListenerRecv)
             => (expiries \subseteq expiries' /\ Head(events).pairs[1] \in expiries')
       /\ \A n \in TtlNames :
             (StalePairDue(n) /\ SweepStep) => (data'[n] = None /\ written'[n] = None)]_vars

\* the sweeper stands at the older pair of a key that was SET again
C32_Witness ==
    \E n \in TtlNames :
        /\ StalePairDue(n)
        /\ \E p \in expiries : p[2] = n /\ p[1] > now

(***************************************************************************)
(* Claims about replication_cmd, stated for SpecCmd.                       *)
(***************************************************************************)
\* C33: replication_cmd returns a command for SET, LPUSH and RPUSH and none
\* for any other command; the command built for a SET with a deadline
\* carries PXAT, and the replica parses from it a SET of the same key and
\* value whose deadline is in the same millisecond.
C33_ReplicationCmd ==
    /\ fanout.pc # "new" =>
          /\ fanout.out # None <=> fanout.cmd.name \in {"SET", "LPUSH", "RPUSH"}
          /\ (fanout.cmd.name = "SET" /\ fanout.cmd.expiry # None) =>
                /\ Len(fanout.out[1].a) = 5
                /\ fanout.out[1].a[4] = BulkString("PXAT")
    /\ (fanout.pc = "parsed" /\ fanout.cmd.name = "SET") =>
          /\ fanout.replica.ok
          /\ fanout.replica.cmd[1].name = "SET"
          /\ fanout.replica.cmd[1].key = fanout.cmd.key
          /\ fanout.replica.cmd[1].value = fanout.cmd.value
          /\ fanout.cmd.expiry = None <=> fanout.replica.cmd[1].expiry = None
          /\ fanout.cmd.expiry # None =>
                whole_milliseconds(fanout.replica.cmd[1].expiry[1])
                    = whole_milliseconds(fanout.cmd.expiry[1])

\* the replica has parsed a SET whose deadline lies within a millisecond,
\* after the epoch and after the replica's clock reading
C33_Witness ==
    /\ fanout.pc = "parsed"
    /\ fanout.cmd.name = "SET"
    /\ fanout.cmd.expiry # None
    /\ fanout.cmd.expiry[1] > fanout.at
    /\ fanout.at > 0
    /\ whole_milliseconds(fanout.cmd.expiry[1]) * NanosPerMilli # fanout.cmd.expiry[1]
    /\ fanout.replica.ok

(***************************************************************************)
(* Claims about the sweeper's wake-up, stated for SpecTtlFair.             *)
(***************************************************************************)
\* the listener has taken an event off the channel
ListenerTook == Len(events') < Len(events)

\* the sweeper sleeps or waits
Parked == sweeper.pc \in {"sleep", "wait"}

\* C34: each index update of the listener leaves a notification for the
\* sweeper; the notification is kept while the sweeper is in a pass and
\* until the sweeper takes it; a parked sweeper that has a notification
\* enters a new pass; and a key whose pair is in the index, also one with a
\* deadline earlier than the one the sweeper sleeps for, is gone or SET
\* again after its deadline.
C34_SweeperWakeUp ==
    /\ [][/\ ListenerTook => permit'
          /\ (permit /\ ~permit') => (Parked /\ sweeper'.pc = "loop")]_vars
    /\ (Parked /\ permit) ~> (sweeper.pc = "evict")
    /\ \A n \in TtlNames, d \in TtlDeadlines :
          (<<d, n>> \in expiries /\ SetWithDeadline(n, d)) ~> GoneOrSetAgain(n, d)

\* the sweeper sleeps for a later deadline when an earlier pair has been
\* indexed and the notification is waiting for it
C34_Witness ==
    /\ sweeper.pc = "sleep"
    /\ permit
    /\ events = <<>>
    /\ \E p \in expiries, q \in expiries :
          /\ p = first(expiries)
          /\ p[1] < q[1]
          /\ now < p[1]
          /\ p[1] < sweeper.wake
          /\ SetWithDeadline(p[2], p[1])

(***************************************************************************)
(* Claims about the MultiCommand of a connection, stated for SpecPipe.     *)
(***************************************************************************)
\* the handler of c ends the exec of its queue in this step
ExecEnds(c) == conns[c].pc \in {"exec", "exec_repl"} /\ conns'[c].pc = "idle"

\* C35: the queue of a connection is non-empty only while its pipeline is
\* active; the end of EXEC, a DISCARD of an active pipeline and a frame that
\* is no command leave the queue empty and the pipeline inactive; and a
\* MULTI that starts a pipeline starts it with an empty queue.
C35_MultiState ==
    /\ [](\A c \in PipeConns :
             conns[c].multicommand.commands # <<>> => conns[c].multicommand.is_active)
    /\ [][\A c \in PipeConns :
             /\ ExecEnds(c) => conns'[c].multicommand = MultiCommandNew
             /\ (conns[c].multicommand.is_active /\ conns[c].pc = "idle" /\ Exec(c)
                    /\ conns'[c].pc = "idle")
                   => conns'[c].multicommand = MultiCommandNew
             /\ (conns[c].multicommand.is_active /\ conns[c].pc = "idle" /\ Discard(c))
                   => conns'[c].multicommand = MultiCommandNew
             /\ (conns[c].pc = "idle" /\ out'.t = "SimpleError" /\ CommandErr(c))
                   => conns'[c].multicommand = MultiCommandNew
             /\ (~conns[c].multicommand.is_active /\ conns'[c].multicommand.is_active)
                   => conns'[c].multicommand.commands = <<>>]_vars

\* the handler of a connection has just written the reply of an EXEC of a
\* full queue
C35_Witness ==
    \E c \in PipeClients :
        /\ conns[c].multicommand = MultiCommandNew
        /\ conns[c].pc = "idle"
        /\ sockets[c].sent = 1
        /\ out.t = "Array"
        /\ Len(out.a) = MaxQueue

(***************************************************************************)
(* Claims about failing store calls, stated for Spec.                      *)
(***************************************************************************)
\* C36: a set, lpush, rpush or bulk_del that returns an error leaves the
\* keyspace as it was before the call, also when the error is the failure
\* to publish the call's event on a channel without subscriber.
C36_ErrorLeavesKeyspace ==
    [][/\ \A k \in Names, v \in Vals, e \in StoreExpiries :
             (last'.op = "set" /\ ~last'.res.ok /\ DoSet(k, v, e)) => data' = data
       /\ \A k \in Names, v \in PushArgs :
             (last'.op = "lpush" /\ ~last'.res.ok /\ DoLPush(k, v)) => data' = data
       /\ \A k \in Names, v \in PushArgs :
             (last'.op = "rpush" /\ ~last'.res.ok /\ DoRPush(k, v)) => data' = data
       /\ \A keys \in DelArgs :
             (last'.op = "bulk_del" /\ ~last'.res.ok /\ DoBulkDel(keys)) => data' = data]_vars

(***************************************************************************)
(* Claims about the bytes a parser reports as read, stated for SpecResp.   *)
(***************************************************************************)
\* C37: when parse (and through it new_bulk_string or new_array) returns a
\* value, the count of bytes read that it returns is at most the length of
\* the buffer it was given, and the bytes read end with CRLF.
C37_BytesConsumedBound ==
    (wire.op = "parse" /\ wire.res[1].ok) =>
        /\ wire.res[1].used <= Len(wire.buf)
        /\ at(wire.buf, wire.res[1].used - 1) \o at(wire.buf, wire.res[1].used) = CRLF

(***************************************************************************)
(* Claims about the locks, stated for SpecLock and SpecLockFair.           *)
(***************************************************************************)
\* the task waits for a lock
Waiting(t) ==
    locks.pc[t] \in {"want_read", "want_write", "want_del", "want_peers", "want_add",
                     "want_remove", "want_index"}

\* the tasks that hold, in a way that excludes the request, the lock the task waits for
Blockers(t) ==
    LET pc == locks.pc[t]
    IN  IF pc = "want_read" THEN {locks.data_w} \ {""}
        ELSE IF pc \in {"want_write", "want_del"}
             THEN ({locks.data_w} \ {""}) \cup locks.data_r
        ELSE IF pc \in {"want_peers", "want_add", "want_remove"} THEN {locks.peers} \ {""}
        ELSE IF pc = "want_index" THEN {locks.index} \ {""}
        ELSE {}

RECURSIVE WaitsUpon(_, _)
\* the tasks a task waits for, directly or through at most n further tasks
WaitsUpon(t, n) ==
    IF n = 0 THEN Blockers(t)
    ELSE Blockers(t) \cup UNION {WaitsUpon(u, n - 1) : u \in Blockers(t)}

NoWaitCycle == \A t \in LockTasks : t \notin WaitsUpon(t, Cardinality(LockTasks))

Published == locks.applied \o locks.evt \o locks.chan

\* the calls whose change of the keyspace is not yet published
Unpublished == SubSeq(locks.muts, Len(Published) + 1, Len(locks.muts))

\* C39: the events of set and bulk_del are on the channel in the order in
\* which the calls changed the keyspace, whatever the interleaving of the
\* handlers, and the listener applies them to the index in that order; a
\* call whose event is not yet published still holds the write lock.
C39_EventOrder ==
    /\ Len(Published) <= Len(locks.muts)
    /\ Published = SubSeq(locks.muts, 1, Len(Published))
    /\ Len(Unpublished) <= 1
    /\ \A i \in DOMAIN Unpublished : locks.data_w = Unpublished[i].by

\* two handlers have changed the keyspace, one after the other, one of them
\* having waited for the write lock of the other, and the listener has
\* applied both events
C39_Witness ==
    /\ Len(locks.applied) = 2
    /\ locks.applied[1].by # locks.applied[2].by
    /\ locks.applied = locks.muts
    /\ \E i \in 1..2 : locks.applied[i].op = "del"

\* the writer task of the peer has finished its removal
WriterGone == locks.pc["writer"] = "done"

\* the peer is in the registry
InRegistry == \E i \in DOMAIN locks.registry : locks.registry[i] = "writer"

\* replicate of handler c reads the registry and decides in this step
Decides(c) == locks.pc[c] = "replicating" /\ locks'.pc[c] = "idle"

\* C40: the peer is pushed into the registry exactly once; its writer task
\* removes it at most once and only after the push, waiting for the lock
\* add_peer holds even when it fails right after being spawned; once the
\* writer task has ended the registry does not hold the peer; and replicate
\* sends exactly when the registry holds a peer whose writer task has not
\* finished its removal.
C40_RegistryWriter ==
    /\ [](/\ locks.pushes <= 1
          /\ locks.removals <= locks.pushes
          /\ Len(locks.registry) = locks.pushes - locks.removals
          /\ (locks.pc[Joiner] = "done") = (locks.pushes = 1)
          /\ locks.pc["writer"] \in {"unborn", "running", "want_remove"}
                => locks.removals = 0
          /\ locks.pc["writer"] = "removing" => locks.pushes = 1 /\ InRegistry
          /\ WriterGone => locks.removals = 1 /\ ~InRegistry)
    /\ [][\A c \in LockHandlers :
             Decides(c) => (locks'.attempted[c] = (InRegistry /\ ~WriterGone))]_vars

\* the writer task has failed right after being spawned and waits for the
\* lock of the registry, which add_peer holds until the peer is pushed
C40_Witness ==
    /\ locks.pc[Joiner] = "spawned"
    /\ locks.peers = Joiner
    /\ locks.pc["writer"] = "want_remove"
    /\ ~InRegistry

=============================================================================
